---- MODULE Spec2Model ----
(***************************************************************************)
(* Model of the recall question-answering engine                           *)
(* (utils/function_calling_system.py, utils/agent_recall.py).              *)
(*                                                                         *)
(* Text is modelled as a sequence of characters.  A Latin letter, digit,   *)
(* blank or punctuation mark is the one-character string itself; a Hangul  *)
(* syllable is written as its romanisation of two or more letters ("jak"   *)
(* "nyeon" is the two syllable word for "last year"; a one-letter          *)
(* romanisation is doubled, "ii", "uu"), and counts as ONE character.      *)
(***************************************************************************)
EXTENDS Integers, Sequences, FiniteSets, TLC

VARIABLES
    current_year,   \* datetime.now().year, read by parse_relative_dates
    recalls,        \* the rows of the structured store's table "recalls"
    db_initialized, \* module global _db_initialized
    sqlite_conn,    \* module global _sqlite_conn
    vectorstore,    \* module global _vectorstore
    tcache,         \* the lru_cache of translate_to_english
    cache,          \* self.cache of the FunctionCallRecallSystem instance
    stored,         \* history: the results stored in cache, each with the
                    \* words of the question it was computed for
    call,           \* the last invocation: [op |-> name, ...arguments]
    ret             \* what that invocation returned

env == <<current_year, recalls>>

globals == <<db_initialized, sqlite_conn, vectorstore>>

instance == <<cache, stored>>

vars == <<current_year, recalls, db_initialized, sqlite_conn, vectorstore,
          tcache, cache, stored, call, ret>>

\* Python's None, and SQL's NULL; neither is a text.
None == <<"None">>

Null == <<"NULL">>

NoCall == [op |-> "none"]

(***************************************************************************)
(* Characters and strings                                                  *)
(***************************************************************************)
Digits == <<"0", "1", "2", "3", "4", "5", "6", "7", "8", "9">>

DigitChars == {Digits[i] : i \in 1..10}

UpperChars == <<"A", "B", "C", "D", "E", "F", "G", "H", "I", "J", "K", "L", "M",
                "N", "O", "P", "Q", "R", "S", "T", "U", "V", "W", "X", "Y", "Z">>

LowerChars == <<"a", "b", "c", "d", "e", "f", "g", "h", "i", "j", "k", "l", "m",
                "n", "o", "p", "q", "r", "s", "t", "u", "v", "w", "x", "y", "z">>

SpaceChars == {" ", "\t", "\n"}

\* str.lower() on one character
LowerChar(c) ==
    IF \E i \in 1..26 : UpperChars[i] = c
    THEN LowerChars[CHOOSE i \in 1..26 : UpperChars[i] = c]
    ELSE c

\* str.lower()
Lower(s) == [i \in 1..Len(s) |-> LowerChar(s[i])]

\* str.lstrip() / str.rstrip() / str.strip(): blanks removed at both ends
RECURSIVE LStrip(_)
LStrip(s) == IF s # <<>> /\ Head(s) \in SpaceChars THEN LStrip(Tail(s)) ELSE s

RECURSIVE RStrip(_)
RStrip(s) ==
    IF s # <<>> /\ s[Len(s)] \in SpaceChars
    THEN RStrip(SubSeq(s, 1, Len(s) - 1))
    ELSE s

Strip(s) == RStrip(LStrip(s))

\* Python's "sub in s"
Contains(s, sub) ==
    \E i \in 0..(Len(s) - Len(sub)) : SubSeq(s, i + 1, i + Len(sub)) = sub

\* str.isdigit(): non-empty and every character a digit
IsDigit(s) == s # <<>> /\ \A i \in 1..Len(s) : s[i] \in DigitChars

\* str(n) for a natural number n
RECURSIVE Str(_)
Str(n) == IF n < 10 THEN <<Digits[n + 1]>> ELSE Str(n \div 10) \o <<Digits[(n % 10) + 1]>>

\* All strings over alphabet A of length at most n
StringsUpTo(A, n) == UNION {[1..k -> A] : k \in 0..n}

(***************************************************************************)
(* Relative Date Resolver: parse_relative_dates                            *)
(***************************************************************************)
\* korean_mappings, in the dict's insertion (= iteration) order; off is the
\* number of years subtracted from current_year.
korean_mappings ==
    << [key |-> <<"ol", "hae">>,            off |-> 0],
       [key |-> <<"jak", "nyeon">>,         off |-> 1],
       [key |-> <<"jae", "jak", "nyeon">>,  off |-> 2],
       [key |-> <<"ii", "beon", "nyeon">>,  off |-> 0],
       [key |-> <<"hyeon", "jae">>,         off |-> 0],
       [key |-> <<"ji", "nan", "hae">>,     off |-> 1],
       [key |-> <<"jeon", "nyeon">>,        off |-> 1],
       [key |-> <<"geum", "nyeon">>,        off |-> 0],
       [key |-> <<"jak", "nyeon", "do">>,   off |-> 1],
       [key |-> <<"ol", "hae", "nyeon", "do">>, off |-> 0] >>

\* for korean, year in korean_mappings.items(): if korean in period_lower:
\* return year -- the index of the first item (in dict order) whose key occurs
\* in period_lower, 0 when none does
FirstMapping(period_lower) ==
    LET hits == {i \in 1..Len(korean_mappings) :
                    Contains(period_lower, korean_mappings[i].key)}
    IN  IF hits = {} THEN 0
        ELSE CHOOSE i \in hits : \A j \in hits : i <= j

\* Mutant: the numeric pass-through without the length test
parse_relative_dates_any_digits(period_text, year) ==
    LET period_lower == Strip(Lower(period_text))
        hit          == FirstMapping(period_lower)
    IN  IF hit # 0 THEN Str(year - korean_mappings[hit].off)
        ELSE IF IsDigit(period_text) THEN period_text
        ELSE Str(year)

parse_relative_dates(period_text, year) ==
    LET period_lower == Strip(Lower(period_text))
        hit          == FirstMapping(period_lower)
    IN  IF hit # 0 THEN Str(year - korean_mappings[hit].off)
        ELSE IF IsDigit(period_text) /\ Len(period_text) = 4 THEN period_text
        ELSE Str(year)

(***************************************************************************)
(* Inputs of the resolver                                                  *)
(***************************************************************************)
MaxPeriodLen == 3

FirstYear == 2025

LastYear == 2026

Years == FirstYear..LastYear

PeriodAlphabet == {"jae", "jak", "nyeon", "ol", "hae", " ", "2", "Q"}

MappingKeys == {korean_mappings[i].key : i \in 1..Len(korean_mappings)}

PeriodTexts ==
    MappingKeys \cup {Str(y) : y \in (FirstYear - 2)..LastYear}
                \cup StringsUpTo(PeriodAlphabet, MaxPeriodLen)

\* The state of a fresh process, before any operation touched the stores.
InitIdle ==
    /\ recalls = {}
    /\ db_initialized = FALSE
    /\ sqlite_conn = None
    /\ vectorstore = None
    /\ tcache = <<>>
    /\ cache = <<>>
    /\ stored = {}
    /\ call = NoCall
    /\ ret = <<>>

InitDates ==
    /\ current_year \in Years
    /\ InitIdle

ParseRelativeDates ==
    \E period_text \in PeriodTexts :
        /\ call = NoCall
        /\ call' = [op |-> "parse_relative_dates", period_text |-> period_text]
        /\ ret' = parse_relative_dates(period_text, current_year)
        /\ UNCHANGED <<env, globals, tcache, instance>>

NextDates == ParseRelativeDates

SpecDates == InitDates /\ [][NextDates]_vars

\* The year offset the vocabulary assigns to an expression: 0 'this year',
\* 1 'last year', 2 'year before last'.
ThisYearWords == {<<"ol", "hae">>, <<"geum", "nyeon">>, <<"ii", "beon", "nyeon">>,
                  <<"hyeon", "jae">>, <<"ol", "hae", "nyeon", "do">>}

LastYearWords == {<<"jak", "nyeon">>, <<"ji", "nan", "hae">>, <<"jeon", "nyeon">>,
                  <<"jak", "nyeon", "do">>}

YearBeforeLastWords == {<<"jae", "jak", "nyeon">>}

\* C1: parse_relative_dates maps every 'this year' expression to the current
\* year Y, every 'last year' expression to Y-1 and the 'year before last'
\* expression to Y-2.
C1_RelativeYears ==
    call.op = "parse_relative_dates" =>
        /\ call.period_text \in ThisYearWords => ret = Str(current_year)
        /\ call.period_text \in LastYearWords => ret = Str(current_year - 1)
        /\ call.period_text \in YearBeforeLastWords => ret = Str(current_year - 2)

\* A text carries a relative expression of the vocabulary.
Recognised(text) == \E key \in MappingKeys : Contains(Lower(text), key)

\* A text of exactly four decimal digits
FourDigits(text) == Len(text) = 4 /\ \A i \in 1..4 : text[i] \in DigitChars

\* C11: parse_relative_dates returns for every text; a text of four digits
\* is returned unchanged, a text with no relative expression that is not
\* four digits gives the current year, and every result is a four-digit
\* year.
C11_ParseTotal ==
    call.op = "parse_relative_dates" =>
        /\ FourDigits(ret)
        /\ FourDigits(call.period_text) => ret = call.period_text
        /\ (~Recognised(call.period_text) /\ ~FourDigits(call.period_text))
              => ret = Str(current_year)

\* A four-digit year other than the current one came back unchanged.
C11_Witness ==
    /\ call.op = "parse_relative_dates"
    /\ FourDigits(call.period_text)
    /\ call.period_text # Str(current_year)
    /\ ret = call.period_text

(***************************************************************************)
(* Numbers: Python's round(x, 1) on a float quotient                       *)
(***************************************************************************)
\* A one-decimal number is modelled by its number of tenths (30.0 is 300,
\* -47.9 is -479).  Round1(num, den) is the set of values round(num / den, 1)
\* can take, in tenths, for den > 0: the nearest tenth, and at an exact
\* half-way point either neighbour, since the binary float that Python rounds
\* may lie on either side of the decimal tie.
Round1(num, den) ==
    LET base == (10 * num) \div den
        rem  == 10 * num - base * den
    IN  IF 2 * rem < den THEN {base}
        ELSE IF 2 * rem > den THEN {base + 1}
        ELSE {base, base + 1}

Max(a, b) == IF a >= b THEN a ELSE b

Min(a, b) == IF a <= b THEN a ELSE b

(***************************************************************************)
(* Comparison Engine: the change computation of compare_periods            *)
(***************************************************************************)
\* Mutant: the thresholds taken as inclusive (>= 10, >= 3, <= -10, <= -3)
TrendOfPercent_inclusive(change, value1) ==
    IF change * 100 >= 10 * value1 THEN "significant_increase"
    ELSE IF change * 100 >= 3 * value1 THEN "moderate_increase"
    ELSE IF change * 100 <= (-10) * value1 THEN "significant_decrease"
    ELSE IF change * 100 <= (-3) * value1 THEN "moderate_decrease"
    ELSE "stable"

\* if change_percent > 10 ... elif > 3 ... elif < -10 ... elif < -3 ... else,
\* on the unrounded change_percent = change / value1 * 100 (value1 > 0)
TrendOfPercent(change, value1) ==
    IF change * 100 > 10 * value1 THEN "significant_increase"
    ELSE IF change * 100 > 3 * value1 THEN "moderate_increase"
    ELSE IF change * 100 < (-10) * value1 THEN "significant_decrease"
    ELSE IF change * 100 < (-3) * value1 THEN "moderate_decrease"
    ELSE "stable"

\* Mutant: the division done without the "if value1 > 0" guard; dividing by
\* zero raises, and compare_periods' except clause returns an error object.
comparison_unguarded(value1, value2) ==
    LET change == value2 - value1
    IN  IF value1 # 0
        THEN {[change |-> change, change_percent |-> r,
               trend |-> "stable"] :
                  r \in Round1(change * 100, value1)}
        ELSE {[error |-> "division by zero"]}

\* The "comparison" object compare_periods returns for the two period totals;
\* a set, because of Round1.  change_percent is in tenths.
comparison(value1, value2) ==
    LET change == value2 - value1
    IN  IF value1 > 0
        THEN {[change |-> change, change_percent |-> r,
               trend |-> TrendOfPercent(change, value1)] :
                  r \in Round1(change * 100, value1)}
        ELSE {[change |-> change, change_percent |-> 0, trend |-> "stable"]}

MaxTotal == 24

Totals == 0..MaxTotal \cup {125, 240}

CompareTotals ==
    \E value1 \in Totals, value2 \in Totals :
        /\ call = NoCall
        /\ call' = [op |-> "comparison", value1 |-> value1, value2 |-> value2]
        /\ ret' \in comparison(value1, value2)
        /\ UNCHANGED <<env, globals, tcache, instance>>

NextCompare == CompareTotals

SpecCompare == InitDates /\ [][NextCompare]_vars

\* |p - q| with p, q integers
Dist(p, q) == IF p >= q THEN p - q ELSE q - p

\* C6: change = total2 - total1; for total1 > 0 change_percent is
\* change / total1 * 100 rounded to one decimal (within 0.05 of it), and the
\* trend follows the thresholds > 10, > 3, < -10, < -3 of that percentage,
\* stable otherwise; 240 and 125 give -115, -47.9, significant decrease.
C6_CompareArithmetic ==
    call.op = "comparison" =>
        /\ ret.change = call.value2 - call.value1
        /\ call.value1 > 0 =>
            /\ 2 * Dist(ret.change_percent * call.value1, ret.change * 1000)
                  <= call.value1
            /\ ret.trend = "significant_increase"
                  <=> ret.change * 100 > 10 * call.value1
            /\ ret.trend = "moderate_increase"
                  <=> /\ ret.change * 100 > 3 * call.value1
                      /\ ret.change * 100 <= 10 * call.value1
            /\ ret.trend = "significant_decrease"
                  <=> ret.change * 100 < (-10) * call.value1
            /\ ret.trend = "moderate_decrease"
                  <=> /\ ret.change * 100 < (-3) * call.value1
                      /\ ret.change * 100 >= (-10) * call.value1
            /\ ret.trend = "stable"
                  <=> /\ ret.change * 100 <= 3 * call.value1
                      /\ ret.change * 100 >= (-3) * call.value1
        /\ (call.value1 = 240 /\ call.value2 = 125) =>
              ret = [change |-> -115, change_percent |-> -479,
                     trend |-> "significant_decrease"]

C6_Witness ==
    /\ call.op = "comparison"
    /\ call.value1 = 240
    /\ call.value2 = 125
    /\ ret.change_percent = -479

\* C7: with a period1 total of 0, change_percent is 0 whatever the period2
\* total, and a comparison (not an error object) is returned.
C7_ZeroGuard ==
    (call.op = "comparison" /\ call.value1 = 0) =>
        /\ "error" \notin DOMAIN ret
        /\ ret.change_percent = 0
        /\ ret.change = call.value2

C7_Witness ==
    /\ call.op = "comparison"
    /\ call.value1 = 0
    /\ call.value2 > 0
    /\ ret.change_percent = 0

(***************************************************************************)
(* Exclude filter: the statistics arithmetic of calculate_filter_statistics*)
(***************************************************************************)
\* Mutant: final_filtered reported without the max(0, ...) clamp
filter_statistics_unclamped(total_count, include_count, exclude_count) ==
    LET rates == IF include_count > 0
                 THEN Round1(exclude_count * 100, include_count)
                 ELSE {0}
    IN  {[total_records  |-> total_count,
          include_matches |-> include_count,
          exclude_matches |-> exclude_count,
          final_filtered  |-> include_count - exclude_count,
          exclusion_rate  |-> r] : r \in rates}

\* The statistics object built from the three COUNT(*) results; a set,
\* because of Round1.  exclusion_rate is in tenths of a percent.
filter_statistics(total_count, include_count, exclude_count) ==
    LET final_count == IF exclude_count > 0
                       THEN include_count - exclude_count
                       ELSE include_count
        rates == IF include_count > 0
                 THEN Round1(exclude_count * 100, include_count)
                 ELSE {0}
    IN  {[total_records  |-> total_count,
          include_matches |-> include_count,
          exclude_matches |-> exclude_count,
          final_filtered  |-> Max(0, final_count),
          exclusion_rate  |-> r] : r \in rates}

MaxCount == 9

Counts == 0..MaxCount \cup {120, 400, 1000}

\* include_count and exclude_count count rows of the table that has
\* total_count rows.
FilterStatistics ==
    \E total_count \in Counts :
      \E include_count \in {c \in Counts : c <= total_count},
         exclude_count \in {c \in Counts : c <= total_count} :
        /\ call = NoCall
        /\ call' = [op |-> "filter_statistics", total |-> total_count,
                    include |-> include_count, exclude |-> exclude_count]
        /\ ret' \in filter_statistics(total_count, include_count, exclude_count)
        /\ UNCHANGED <<env, globals, tcache, instance>>

NextStats == FilterStatistics

SpecStats == InitDates /\ [][NextStats]_vars

\* C8: final_filtered = max(0, include_matches - exclude_matches), never
\* negative; exclusion_rate = exclude_matches / include_matches * 100 rounded
\* to one decimal (0 when include_matches is 0); 1000 / 400 / 120 give 280
\* and 30.0.
C8_FilterStatistics ==
    call.op = "filter_statistics" =>
        /\ ret.final_filtered >= 0
        /\ ret.final_filtered = Max(0, call.include - call.exclude)
        /\ call.include = 0 => ret.exclusion_rate = 0
        /\ call.include > 0 =>
              2 * Dist(ret.exclusion_rate * call.include, call.exclude * 1000)
                 <= call.include
        /\ (call.total = 1000 /\ call.include = 400 /\ call.exclude = 120) =>
              (ret.final_filtered = 280 /\ ret.exclusion_rate = 300)

C8_Witness ==
    /\ call.op = "filter_statistics"
    /\ call.exclude > call.include
    /\ call.include > 0
    /\ ret.final_filtered = 0

(***************************************************************************)
(* rank_by_field: the resolution of the requested field to a column        *)
(***************************************************************************)
\* field_mapping, in the dict's insertion (= iteration) order
field_mapping ==
    << [key |-> <<"c", "o", "m", "p", "a", "n", "y">>,
        col |-> "company_name"],
       [key |-> <<"b", "r", "a", "n", "d">>,
        col |-> "brand_name"],
       [key |-> <<"p", "r", "o", "d", "u", "c", "t", "_", "t", "y", "p", "e">>,
        col |-> "product_type"],
       [key |-> <<"p", "r", "o", "d", "u", "c", "t">>,
        col |-> "product_type"],
       [key |-> <<"r", "e", "c", "a", "l", "l", "_", "r", "e", "a", "s", "o", "n">>,
        col |-> "recall_reason"],
       [key |-> <<"r", "e", "a", "s", "o", "n">>,
        col |-> "recall_reason"],
       [key |-> <<"r", "e", "c", "a", "l", "l", "_", "d", "e", "t", "a", "i", "l">>,
        col |-> "recall_reason_detail"],
       [key |-> <<"d", "e", "t", "a", "i", "l">>,
        col |-> "recall_reason_detail"],
       [key |-> <<"c", "o", "n", "t", "a", "m", "i", "n", "a", "n", "t">>,
        col |-> "recall_reason_detail"],
       [key |-> <<"a", "l", "l", "e", "r", "g", "e", "n">>,
        col |-> "recall_reason_detail"] >>

\* str.replace(old, "") for a one-character old
RemoveChar(s, c) == SelectSeq(s, LAMBDA x : x # c)

\* The index of the first item of field_mapping satisfying
\* "key in normalized_field or normalized_field in key", 0 when none does
FirstPartial(normalized_field) ==
    LET hits == {i \in 1..Len(field_mapping) :
                    \/ Contains(normalized_field, field_mapping[i].key)
                    \/ Contains(field_mapping[i].key, normalized_field)}
    IN  IF hits = {} THEN 0
        ELSE CHOOSE i \in hits : \A j \in hits : i <= j

\* db_field of rank_by_field(field)
resolve_db_field(field) ==
    LET normalized_field == RemoveChar(RemoveChar(Lower(field), "_"), " ")
        exact == {i \in 1..Len(field_mapping) : field_mapping[i].key = Lower(field)}
        part  == FirstPartial(normalized_field)
    IN  IF exact # {} THEN field_mapping[CHOOSE i \in exact : TRUE].col
        ELSE IF part # 0 THEN field_mapping[part].col
        ELSE "recall_reason"

MaxFieldLen == 2

FieldAlphabet == {"a", "g", "x", "R", "_", " "}

\* The field name the hint of RecallAgent._make_hint recommends for a ranking
\* of reasons
HintReasonField == <<"r", "e", "c", "a", "l", "l", "_", "r", "e", "a", "s", "o", "n", "_", "d", "e", "t", "a", "i", "l">>

FieldNames ==
    {field_mapping[i].key : i \in 1..Len(field_mapping)}
        \cup {HintReasonField, <<"C", "o", "m", "p", "a", "n", "y">>, <<"x", "y", "z">>}
        \cup StringsUpTo(FieldAlphabet, MaxFieldLen)

RankField ==
    \E field \in FieldNames :
        /\ call = NoCall
        /\ call' = [op |-> "rank_by_field", field |-> field]
        /\ ret' = [field |-> field, db_field |-> resolve_db_field(field)]
        /\ UNCHANGED <<env, globals, tcache, instance>>

NextRank == RankField

SpecRank == InitDates /\ [][NextRank]_vars

\* A field name is an alias of a column when, lower-cased, it is a key of the
\* alias table or, with "_" and blanks removed, contains one.
IsAlias(field) ==
    \E i \in 1..Len(field_mapping) :
        \/ field_mapping[i].key = Lower(field)
        \/ Contains(RemoveChar(RemoveChar(Lower(field), "_"), " "),
                    field_mapping[i].key)

\* C4: 'company' resolves to company_name, and every field name that is not
\* an alias of any column (the empty string and single letters included)
\* resolves to recall_reason.
C4_UnknownFieldDefaults ==
    call.op = "rank_by_field" =>
        /\ call.field = <<"c", "o", "m", "p", "a", "n", "y">> => ret.db_field = "company_name"
        /\ ~IsAlias(call.field) => ret.db_field = "recall_reason"

\* C5: detail, contaminant, allergen and recall_reason_detail resolve to the
\* recall_reason_detail column.
C5_DetailFields ==
    (call.op = "rank_by_field"
        /\ call.field \in {<<"d", "e", "t", "a", "i", "l">>, <<"c", "o", "n", "t", "a", "m", "i", "n", "a", "n", "t">>,
                           <<"a", "l", "l", "e", "r", "g", "e", "n">>, HintReasonField})
        => ret.db_field = "recall_reason_detail"

(***************************************************************************)
(* Term Expansion Gateway: translate_to_english and its lru_cache          *)
(***************************************************************************)
\* @lru_cache(maxsize=512)
lru_maxsize == 512

\* The translation service's invoke raised an exception.
Failure == <<"Failure">>

\* tcache is the cache's content, least recently used first: a sequence of
\* [k |-> argument, v |-> returned value].
CachePos(tc, k) ==
    IF \E i \in 1..Len(tc) : tc[i].k = k
    THEN CHOOSE i \in 1..Len(tc) : tc[i].k = k
    ELSE 0

RemoveAt(q, i) == SubSeq(q, 1, i - 1) \o SubSeq(q, i + 1, Len(q))

\* Mutant: the body without its try/except; the service's exception escapes
translate_body_raising(reply, korean_text) ==
    IF reply = Failure THEN Failure ELSE Strip(reply)

\* The body of translate_to_english, run on a cache miss, for the service's
\* reply: response.content.strip(), or korean_text when the call raised
translate_body(reply, korean_text) ==
    IF reply = Failure THEN korean_text ELSE Strip(reply)

\* translate_to_english(korean_text) with cache tc, the service answering
\* svc[text]: the returned value and the cache afterwards.  An exception
\* (value Failure) is not cached.
translate_to_english(tc, svc, korean_text) ==
    LET pos == CachePos(tc, korean_text)
    IN  IF pos # 0
        THEN [value |-> tc[pos].v,
              cache |-> Append(RemoveAt(tc, pos), tc[pos])]
        ELSE LET v     == translate_body(svc[korean_text], korean_text)
                 added == Append(tc, [k |-> korean_text, v |-> v])
             IN  [value |-> v,
                  cache |-> IF v = Failure THEN tc
                            ELSE IF Len(added) > lru_maxsize THEN Tail(added)
                            ELSE added]

\* The calls translate_to_english(ks[1]), translate_to_english(ks[2]), ...
\* made in this order: the values returned and the cache afterwards.
RECURSIVE TranslateRun(_, _, _)
TranslateRun(tc, svc, ks) ==
    IF ks = <<>> THEN [out |-> <<>>, cache |-> tc]
    ELSE LET first == translate_to_english(tc, svc, Head(ks))
             rest  == TranslateRun(first.cache, svc, Tail(ks))
         IN  [out |-> <<first.value>> \o rest.out, cache |-> rest.cache]

\* search_terms = [term, english] if english != term else [term]
expand(term, english) ==
    IF english # term THEN <<term, english>> ELSE <<term>>

\* Python truthiness of an Optional[str] argument
Falsy(x) == x = None \/ x = <<>>

Truthy(x) == ~Falsy(x)

(***************************************************************************)
(* Structured store: SQL's three-valued predicates over a row              *)
(***************************************************************************)
\* Truth values "T", "F" and "U" (NULL).  A WHERE clause keeps a row only when
\* it evaluates to "T".
Or3(vals) == IF "T" \in vals THEN "T" ELSE IF "U" \in vals THEN "U" ELSE "F"

And3(vals) == IF "F" \in vals THEN "F" ELSE IF "U" \in vals THEN "U" ELSE "T"

Not3(v) == IF v = "T" THEN "F" ELSE IF v = "F" THEN "T" ELSE "U"

\* LOWER(col) LIKE LOWER('%term%'), for a term without the wildcards % and _
SqlLike(col, term) ==
    IF col = Null THEN "U"
    ELSE IF Contains(Lower(col), Lower(term)) THEN "T" ELSE "F"

\* LOWER(col) = LOWER(term)
SqlEqLower(col, term) ==
    IF col = Null THEN "U"
    ELSE IF Lower(col) = Lower(term) THEN "T" ELSE "F"

\* strftime('%Y', date) = year  /  strftime('%Y-%m', date) = year, for dates
\* stored as ISO text YYYY-MM-DD; width is 4 or 7
SqlDateIs(date, width, year) ==
    IF date = Null THEN "U"
    ELSE IF SubSeq(date, 1, width) = year THEN "T" ELSE "F"

\* col1 LIKE t OR col2 LIKE t OR ... for every t of terms, OR-ed
AnyLike(row, cols, terms) ==
    Or3({SqlLike(row[c], terms[i]) : c \in cols, i \in 1..Len(terms)})

SixColumns == {"company_name", "brand_name", "product_type", "recall_reason",
               "recall_reason_detail", "content"}

FiveColumns == {"company_name", "brand_name", "product_type", "recall_reason",
                "recall_reason_detail"}

Range(q) == {q[i] : i \in 1..Len(q)}

(***************************************************************************)
(* _get_system_components                                                  *)
(***************************************************************************)
Conn == <<"Connection">>

Store == <<"Chroma">>

\* The handles _get_system_components returns, and the globals afterwards;
\* db_up / vs_up tell whether initialize_sqlite_db / initialize_recall_
\* vectorstore would succeed now.
get_system_components(initialized, conn, vs, db_up, vs_up) ==
    IF ~initialized
    THEN [db_initialized |-> TRUE,
          sqlite_conn |-> IF db_up THEN Conn ELSE None,
          vectorstore |-> IF vs_up THEN Store ELSE None]
    ELSE [db_initialized |-> initialized, sqlite_conn |-> conn, vectorstore |-> vs]

(***************************************************************************)
(* count_recalls                                                           *)
(***************************************************************************)
DETAIL_TERMS ==
    { <<"s", "a", "l", "m", "o", "n", "e", "l", "l", "a">>,
      <<"ri", "seu", "te", "ri", "aa">>,
      <<"l", "i", "s", "t", "e", "r", "i", "a">>,
      <<"l", "i", "s", "t", "e", "r", "i", "a", " ", "m", "o", "n", "o", "c", "y", "t", "o", "g", "e", "n", "e", "s">>,
      <<"e", ".", " ", "c", "o", "l", "i">>,
      <<"e", "c", "o", "l", "i">>,
      <<"e", "s", "c", "h", "e", "r", "i", "c", "h", "i", "a">>,
      <<"n", "o", "r", "o", "v", "i", "r", "u", "s">>,
      <<"no", "ro", "ba", "ii", "reo", "seu">>,
      <<"c", "a", "m", "p", "y", "l", "o", "b", "a", "c", "t", "e", "r">>,
      <<"s", "h", "i", "g", "e", "l", "l", "a">>,
      <<"c", "l", "o", "s", "t", "r", "i", "d", "i", "u", "m">>,
      <<"b", "o", "t", "u", "l", "i", "n", "u", "m">> }

\* _looks_like_detail(value), v_en being translate_to_english(value)
looks_like_detail(value, v_en) ==
    /\ Truthy(value)
    /\ \E k \in DETAIL_TERMS :
          Contains(Lower(value), k) \/ Contains(Lower(v_en), k)

\* The WHERE clause of count_recalls for one row; t gives each filter's
\* search terms (<<>> when the filter is not applied).
CountWhere(row, t, year) ==
    And3({ IF t.keyword = <<>> THEN "T" ELSE AnyLike(row, SixColumns, t.keyword),
           IF t.company = <<>> THEN "T"
              ELSE AnyLike(row, {"company_name"}, t.company),
           IF t.brand = <<>> THEN "T"
              ELSE AnyLike(row, {"brand_name"}, t.brand),
           IF t.product_type = <<>> THEN "T"
              ELSE AnyLike(row, {"product_type"}, t.product_type),
           IF t.recall_reason = <<>> THEN "T"
              ELSE Or3({SqlEqLower(row.recall_reason, t.recall_reason[i]) :
                          i \in 1..Len(t.recall_reason)}),
           IF t.recall_reason_detail = <<>> THEN "T"
              ELSE AnyLike(row, {"recall_reason_detail"}, t.recall_reason_detail),
           IF Falsy(year) THEN "T"
              ELSE IF Len(year) = 4 THEN SqlDateIs(row.fda_publish_date, 4, year)
              ELSE IF Len(year) = 7 THEN SqlDateIs(row.fda_publish_date, 7, year)
              ELSE "T" })

\* count_recalls(**a) with connection conn over the table rows, translation
\* cache tc and service svc; exec_ok tells whether cursor.execute succeeds.
\* Returns the result object and the translation cache afterwards.
count_recalls(conn, rows, tc, svc, exec_ok, a) ==
    IF conn = None
    THEN [ret |-> [error |-> "sqlite connection"], tcache |-> tc]
    ELSE
    LET asks_detail == Truthy(a.recall_reason) /\ Falsy(a.recall_reason_detail)
        probe   == IF asks_detail THEN <<a.recall_reason>> ELSE <<>>
        v_en    == IF asks_detail
                   THEN translate_to_english(tc, svc, a.recall_reason).value
                   ELSE None
        moved   == asks_detail /\ v_en # Failure
                      /\ looks_like_detail(a.recall_reason, v_en)
        reason  == IF moved THEN None ELSE a.recall_reason
        detail  == IF moved THEN a.recall_reason ELSE a.recall_reason_detail
        filters == << [arg |-> "keyword", term |-> a.keyword],
                      [arg |-> "company", term |-> a.company],
                      [arg |-> "brand", term |-> a.brand],
                      [arg |-> "product_type", term |-> a.product_type],
                      [arg |-> "recall_reason", term |-> reason],
                      [arg |-> "recall_reason_detail", term |-> detail] >>
        used    == SelectSeq(filters, LAMBDA f : Truthy(f.term))
        ks      == probe \o [i \in 1..Len(used) |-> used[i].term]
        run     == TranslateRun(tc, svc, ks)
        TermsOf(arg) ==
            IF \E i \in 1..Len(used) : used[i].arg = arg
            THEN LET i == CHOOSE j \in 1..Len(used) : used[j].arg = arg
                 IN  expand(used[i].term, run.out[Len(probe) + i])
            ELSE <<>>
        t       == [keyword |-> TermsOf("keyword"),
                    company |-> TermsOf("company"),
                    brand |-> TermsOf("brand"),
                    product_type |-> TermsOf("product_type"),
                    recall_reason |-> TermsOf("recall_reason"),
                    recall_reason_detail |-> TermsOf("recall_reason_detail")]
    IN  IF Failure \in Range(run.out)
        THEN [ret |-> [error |-> "count: translation raised"], tcache |-> run.cache]
        ELSE IF ~exec_ok
        THEN [ret |-> [error |-> "count: query failed"], tcache |-> run.cache]
        ELSE [ret |-> [count |-> Cardinality({r \in rows :
                                    CountWhere(r, t, a.year) = "T"}),
                       filters |-> [company |-> a.company,
                                    brand |-> a.brand,
                                    product_type |-> a.product_type,
                                    recall_reason |-> reason,
                                    recall_reason_detail |-> detail,
                                    year |-> a.year,
                                    keyword |-> a.keyword],
                       search_fields |-> IF Truthy(a.keyword) THEN "multiple"
                                         ELSE "specific"],
              tcache |-> run.cache]

(***************************************************************************)
(* Inputs of the catalog operations                                        *)
(***************************************************************************)
T_milk == <<"m", "i", "l", "k">>

T_uyu == <<"uu", "yu">>

T_salmonella == <<"S", "a", "l", "m", "o", "n", "e", "l", "l", "a">>

T_illness == <<"i", "l", "l", "n", "e", "s", "s">>

Terms == {T_milk, T_uyu, T_salmonella, T_illness}

\* Rows the table may hold (dates as ISO text).
RowPool ==
    { [id |-> 1, company_name |-> <<"A", "c", "m", "e">>, brand_name |-> <<"B", "o">>,
       product_type |-> <<"s", "n", "a", "c", "k">>, recall_reason |-> <<"a", "l", "l", "e", "r", "g", "e", "n", "s">>,
       recall_reason_detail |-> <<"u", "n", "d", "e", "c", "l", "a", "r", "e", "d", " ", "m", "i", "l", "k">>, content |-> <<"m", "i", "l", "k">>,
       fda_publish_date |-> <<"2", "0", "2", "4", "-", "0", "5", "-", "1", "7">>, url |-> <<"u", "1">>],
      [id |-> 2, company_name |-> <<"Z", "e", "d">>, brand_name |-> Null,
       product_type |-> <<"d", "a", "i", "r", "y">>, recall_reason |-> <<"i", "l", "l", "n", "e", "s", "s">>,
       recall_reason_detail |-> <<"S", "a", "l", "m", "o", "n", "e", "l", "l", "a">>, content |-> <<"e", "g", "g">>,
       fda_publish_date |-> <<"2", "0", "2", "5", "-", "0", "1", "-", "0", "9">>, url |-> <<"u", "2">>],
      [id |-> 3, company_name |-> <<"A", "c", "m", "e">>, brand_name |-> <<"B", "o">>,
       product_type |-> <<"d", "a", "i", "r", "y">>, recall_reason |-> <<"I", "l", "l", "n", "e", "s", "s", ",", " ", "i", "n", "j", "u", "r", "y">>,
       recall_reason_detail |-> Null, content |-> <<"m", "i", "l", "k">>,
       fda_publish_date |-> <<"2", "0", "2", "3", "-", "1", "2", "-", "3", "0">>, url |-> <<"u", "3">>] }

\* Behaviours of the translation service over the terms: it raises; it echoes
\* the text; it translates (the Korean word for milk to "milk" with a trailing
\* newline, everything else unchanged); it answers with other text.
SvcFail == [t \in Terms |-> Failure]

SvcEcho == [t \in Terms |-> t]

SvcDict == [t \in Terms |-> IF t = T_uyu THEN <<"m", "i", "l", "k", "\n">> ELSE t]

SvcOther == [t \in Terms |-> IF t = T_salmonella THEN T_milk ELSE T_salmonella]

ServiceBehaviours == {"fail", "echo", "dict", "other"}

Svc(name) ==
    CASE name = "fail" -> SvcFail
      [] name = "echo" -> SvcEcho
      [] name = "dict" -> SvcDict
      [] name = "other" -> SvcOther

\* Translation caches an earlier request may have left behind.
InitialCaches == { <<>>, <<[k |-> T_uyu, v |-> T_milk]>> }

\* Tables: empty, all rows, and the rows of two different years.
Tables == { {}, RowPool, {r \in RowPool : r.id # 3}, {r \in RowPool : r.id = 1} }

NoFilters ==
    [company |-> None, product_type |-> None, brand |-> None,
     recall_reason |-> None, recall_reason_detail |-> None,
     year |-> None, keyword |-> None]

TextArgs == {"company", "product_type", "brand", "recall_reason",
             "recall_reason_detail", "keyword"}

YearArgs ==
    {None, <<>>, <<"jak", "nyeon">>, <<"ol", "hae">>, <<"2", "0", "2", "4">>,
     <<"2", "0", "2", "4", "-", "0", "5">>, <<"2", "4">>}

\* Argument sets: any year argument alone, one text filter with or without
\* an absolute year, or both reason filters.
CountArgs ==
    {[NoFilters EXCEPT !.year = y] : y \in YearArgs}
        \cup {[NoFilters EXCEPT ![f] = t, !.year = y] :
                 f \in TextArgs, t \in Terms, y \in {None, <<"2", "0", "2", "4">>}}
        \cup {[NoFilters EXCEPT !.recall_reason = t,
                                !.recall_reason_detail = d] :
                 t \in Terms, d \in {<<>>, T_salmonella, T_illness}}

\* The states a running process can be in when an operation is called: any
\* table, the stores not yet initialised or initialised (with or without a
\* connection), some terms already translated.
InitStore ==
    /\ current_year \in Years
    /\ recalls \in Tables
    /\ \/ db_initialized = FALSE /\ sqlite_conn = None /\ vectorstore = None
       \/ db_initialized = TRUE /\ sqlite_conn = Conn /\ vectorstore = Store
       \/ db_initialized = TRUE /\ sqlite_conn = None /\ vectorstore = None
    /\ tcache \in InitialCaches
    /\ cache = <<>>
    /\ stored = {}
    /\ call = NoCall
    /\ ret = <<>>

CountRecalls ==
    \E a \in CountArgs, svc \in ServiceBehaviours, exec_ok \in BOOLEAN,
       db_up \in IF db_initialized THEN {TRUE} ELSE BOOLEAN :
        LET g == get_system_components(db_initialized, sqlite_conn,
                                       vectorstore, db_up, db_up)
            r == count_recalls(g.sqlite_conn, recalls, tcache, Svc(svc),
                               exec_ok, a)
        IN  /\ call = NoCall
            /\ g.sqlite_conn = None => exec_ok
            /\ call' = [op |-> "count_recalls", args |-> a, svc |-> svc,
                        exec_ok |-> exec_ok]
            /\ ret' = r.ret
            /\ tcache' = r.tcache
            /\ db_initialized' = g.db_initialized
            /\ sqlite_conn' = g.sqlite_conn
            /\ vectorstore' = g.vectorstore
            /\ UNCHANGED <<env, instance>>

\* english = translate_to_english(term); [term, english] if english != term
\* else [term] -- the expansion every operation applies to a filter value
ExpandTerm ==
    \E term \in Terms, svc \in ServiceBehaviours :
        LET r == translate_to_english(tcache, Svc(svc), term)
        IN  /\ call = NoCall
            /\ call' = [op |-> "expand", term |-> term, reply |-> Svc(svc)[term],
                        cached |-> CachePos(tcache, term) # 0]
            /\ ret' = IF r.value = Failure THEN [error |-> "translation raised"]
                      ELSE expand(term, r.value)
            /\ tcache' = r.cache
            /\ UNCHANGED <<env, globals, instance>>

NextCount == CountRecalls \/ ExpandTerm

SpecCount == InitStore /\ [][NextCount]_vars

\* The filters of a call other than year are all absent.
OnlyYear(a) == \A f \in TextArgs : a[f] = None

\* C3: a relative year expression passed to count_recalls is resolved to the
\* absolute year (Y-1 for 'last year', Y for 'this year'), the count is that
\* of the rows published in that year, the echoed filters carry the resolved
\* year; and a non-empty year never leaves the count unrestricted by date.
C3_CountResolvesRelativeYear ==
    (call.op = "count_recalls" /\ "count" \in DOMAIN ret /\ OnlyYear(call.args)) =>
        /\ \A off \in {0, 1} :
            call.args.year \in (IF off = 0 THEN ThisYearWords ELSE LastYearWords) =>
                /\ ret.filters.year = Str(current_year - off)
                /\ ret.count = Cardinality({r \in recalls :
                       SubSeq(r.fda_publish_date, 1, 4) = Str(current_year - off)})
        /\ (Truthy(call.args.year) /\ Cardinality(recalls) > 1
               /\ \A r1, r2 \in recalls :
                     r1 # r2 => SubSeq(r1.fda_publish_date, 1, 4)
                                    # SubSeq(r2.fda_publish_date, 1, 4))
              => ret.count < Cardinality(recalls)

\* C9: a filter value expands to [term] when the translation service fails or
\* returns the term itself, to [term, translation] when it returns something
\* else (the reply being stripped of surrounding blanks); and a failing
\* translation service never makes count_recalls return an error.
C9_TermExpansion ==
    /\ (call.op = "expand" /\ ~call.cached) =>
          IF call.reply = Failure \/ Strip(call.reply) = call.term
          THEN ret = <<call.term>>
          ELSE ret = <<call.term, Strip(call.reply)>>
    /\ (call.op = "count_recalls" /\ sqlite_conn = Conn /\ call.exec_ok) =>
          "count" \in DOMAIN ret

\* The translation service raised for a term not in the cache, and the
\* expansion is the term alone.
C9_Witness ==
    /\ call.op = "expand"
    /\ ~call.cached
    /\ call.reply = Failure
    /\ call.term = T_uyu
    /\ ret = <<T_uyu>>

(***************************************************************************)
(* Semantic Search Merger: search_recall_cases                             *)
(***************************************************************************)
\* enhanced_translations, in the dict's insertion (= iteration) order
enhanced_translations ==
    << [ko |-> <<"sal", "mo", "nel", "ra">>,
        en |-> << <<"S", "a", "l", "m", "o", "n", "e", "l", "l", "a">>,
                  <<"s", "a", "l", "m", "o", "n", "e", "l", "l", "a", " ", "c", "o", "n", "t", "a", "m", "i", "n", "a", "t", "i", "o", "n">> >>],
       [ko |-> <<"ri", "seu", "te", "ri", "aa">>,
        en |-> << <<"L", "i", "s", "t", "e", "r", "i", "a">>,
                  <<"L", "i", "s", "t", "e", "r", "i", "a", " ", "m", "o", "n", "o", "c", "y", "t", "o", "g", "e", "n", "e", "s">> >>],
       [ko |-> <<"dae", "jang", "gyun">>,
        en |-> << <<"E", ".", "c", "o", "l", "i">>,
                  <<"E", ".", " ", "c", "o", "l", "i">>,
                  <<"E", "s", "c", "h", "e", "r", "i", "c", "h", "i", "a", " ", "c", "o", "l", "i">> >>],
       [ko |-> <<"keul", "ro", "seu", "teu", "ri", "dyum">>,
        en |-> << <<"C", "l", "o", "s", "t", "r", "i", "d", "i", "u", "m">>,
                  <<"c", "l", "o", "s", "t", "r", "i", "d", "i", "u", "m", " ", "b", "o", "t", "u", "l", "i", "n", "u", "m">> >>],
       [ko |-> <<"uu", "yu">>,
        en |-> << <<"m", "i", "l", "k">>,
                  <<"d", "a", "i", "r", "y">>,
                  <<"u", "n", "d", "e", "c", "l", "a", "r", "e", "d", " ", "m", "i", "l", "k">> >>],
       [ko |-> <<"gye", "ran">>,
        en |-> << <<"e", "g", "g">>,
                  <<"e", "g", "g", "s">>,
                  <<"u", "n", "d", "e", "c", "l", "a", "r", "e", "d", " ", "e", "g", "g">> >>],
       [ko |-> <<"gyeon", "gwa", "ryu">>,
        en |-> << <<"t", "r", "e", "e", " ", "n", "u", "t", "s">>,
                  <<"n", "u", "t", "s">>,
                  <<"u", "n", "d", "e", "c", "l", "a", "r", "e", "d", " ", "n", "u", "t", "s">> >>],
       [ko |-> <<"ttang", "kong">>,
        en |-> << <<"p", "e", "a", "n", "u", "t">>,
                  <<"p", "e", "a", "n", "u", "t", "s">>,
                  <<"u", "n", "d", "e", "c", "l", "a", "r", "e", "d", " ", "p", "e", "a", "n", "u", "t">> >>],
       [ko |-> <<"kong">>,
        en |-> << <<"s", "o", "y">>,
                  <<"s", "o", "y", "b", "e", "a", "n">>,
                  <<"u", "n", "d", "e", "c", "l", "a", "r", "e", "d", " ", "s", "o", "y">> >>],
       [ko |-> <<"mil">>,
        en |-> << <<"w", "h", "e", "a", "t">>,
                  <<"g", "l", "u", "t", "e", "n">>,
                  <<"u", "n", "d", "e", "c", "l", "a", "r", "e", "d", " ", "w", "h", "e", "a", "t">> >>],
       [ko |-> <<"bok", "hap", " ", "ga", "gong", "sik", "pum">>,
        en |-> << <<"p", "r", "o", "c", "e", "s", "s", "e", "d", " ", "f", "o", "o", "d", "s">>,
                  <<"p", "r", "o", "c", "e", "s", "s", "e", "d", " ", "p", "r", "o", "d", "u", "c", "t", "s">> >>],
       [ko |-> <<"so", "seu", " ", "bok", "hap", "sik", "pum">>,
        en |-> << <<"s", "a", "u", "c", "e", " ", "p", "r", "o", "c", "e", "s", "s", "e", "d", " ", "f", "o", "o", "d">>,
                  <<"s", "a", "u", "c", "e", " ", "p", "r", "o", "d", "u", "c", "t", "s">> >>],
       [ko |-> <<"gwa", "ja">>,
        en |-> << <<"s", "n", "a", "c", "k", "s">>,
                  <<"c", "r", "a", "c", "k", "e", "r", "s">>,
                  <<"c", "o", "o", "k", "i", "e", "s">> >>],
       [ko |-> <<"yu", "je", "pum">>,
        en |-> << <<"d", "a", "i", "r", "y", " ", "p", "r", "o", "d", "u", "c", "t", "s">>,
                  <<"m", "i", "l", "k", " ", "p", "r", "o", "d", "u", "c", "t", "s">> >>],
       [ko |-> <<"hae", "san", "mul">>,
        en |-> << <<"s", "e", "a", "f", "o", "o", "d">>,
                  <<"f", "i", "s", "h", " ", "p", "r", "o", "d", "u", "c", "t", "s">> >>],
       [ko |-> <<"yuk", "ryu">>,
        en |-> << <<"m", "e", "a", "t", " ", "p", "r", "o", "d", "u", "c", "t", "s">>,
                  <<"m", "e", "a", "t">> >>],
       [ko |-> <<"al", "re", "reu", "gen">>,
        en |-> << <<"a", "l", "l", "e", "r", "g", "e", "n">>,
                  <<"u", "n", "d", "e", "c", "l", "a", "r", "e", "d", " ", "a", "l", "l", "e", "r", "g", "e", "n">> >>],
       [ko |-> <<"oo", "yeom">>,
        en |-> << <<"c", "o", "n", "t", "a", "m", "i", "n", "a", "t", "i", "o", "n">>,
                  <<"c", "o", "n", "t", "a", "m", "i", "n", "a", "t", "e", "d">> >>],
       [ko |-> <<"ri", "kol">>,
        en |-> << <<"r", "e", "c", "a", "l", "l">>,
                  <<"v", "o", "l", "u", "n", "t", "a", "r", "y", " ", "r", "e", "c", "a", "l", "l">> >>],
       [ko |-> <<"sa", "rye">>,
        en |-> << <<"c", "a", "s", "e", "s">>,
                  <<"i", "n", "c", "i", "d", "e", "n", "t", "s">> >>] >>

\* The concatenation of the sequences of a sequence of sequences
RECURSIVE Flatten(_)
Flatten(qs) == IF qs = <<>> THEN <<>> ELSE Head(qs) \o Flatten(Tail(qs))

\* list(dict.fromkeys(q)): duplicates removed, the first occurrence kept
RECURSIVE Unique(_)
Unique(q) ==
    IF q = <<>> THEN <<>>
    ELSE LET init == Unique(SubSeq(q, 1, Len(q) - 1))
             last == q[Len(q)]
         IN  IF last \in Range(init) THEN init ELSE Append(init, last)

\* q[:n] for n >= 0
Take(q, n) == SubSeq(q, 1, Min(n, Len(q)))

\* search_queries of search_recall_cases(query), english_query being
\* translate_to_english(query)
search_queries(query, english_query) ==
    LET mapped == Flatten([i \in 1..Len(enhanced_translations) |->
                      IF Contains(query, enhanced_translations[i].ko)
                      THEN enhanced_translations[i].en ELSE <<>>])
        base   == <<query>> \o mapped
        all    == IF english_query # query /\ english_query \notin Range(base)
                  THEN Append(base, english_query) ELSE base
        kept   == SelectSeq([i \in 1..Len(all) |-> Strip(all[i])],
                            LAMBDA q : q # <<>>)
    IN  Unique(kept)

\* One similarity_search: the documents returned, or an exception raised
Returns(docs) == [raised |-> FALSE, docs |-> docs]

SearchError == [raised |-> TRUE, docs |-> <<>>]

\* Mutant: every returned document kept, without the seen_urls test
merge_docs_keep_all(results) ==
    Flatten([i \in 1..Len(results) |->
                IF results[i].raised THEN <<>> ELSE results[i].docs])

\* all_docs after the loop over the search queries; results[i] is what the
\* i-th similarity_search returned (or SearchError).  A document is kept when
\* its url is non-empty and not seen before.
merge_docs(results) ==
    LET flat == Flatten([i \in 1..Len(results) |->
                    IF results[i].raised THEN <<>> ELSE results[i].docs])
        Keep(i) == /\ flat[i].url # <<>>
                   /\ \A j \in 1..(i - 1) : flat[j].url # flat[i].url
        idx  == {i \in 1..Len(flat) : Keep(i)}
        RECURSIVE Pick(_)
        Pick(i) == IF i > Len(flat) THEN <<>>
                   ELSE IF i \in idx THEN <<flat[i]>> \o Pick(i + 1)
                   ELSE Pick(i + 1)
    IN  Pick(1)

\* selected_docs = all_docs[:limit]
select_docs(all_docs, limit) == Take(all_docs, limit)

\* search_recall_cases(query, limit) with store handle vs; answers[i] is what
\* the store would return for the i-th search query (any number of documents,
\* cut here to the k requested), or SearchError.
search_recall_cases(vs, tc, svc, query, limit, answers) ==
    IF vs = None
    THEN [ret |-> [error |-> "vectorstore connection"], tcache |-> tc,
          results |-> <<>>]
    ELSE
    LET tr      == translate_to_english(tc, svc, query)
        queries == search_queries(query, tr.value)
        results == [i \in 1..Len(queries) |->
                      IF answers[i].raised THEN SearchError
                      ELSE Returns(Take(answers[i].docs,
                               IF i = 1 THEN limit * 3 ELSE limit * 2))]
        cases   == select_docs(merge_docs(results), limit)
    IN  IF tr.value = Failure
        THEN [ret |-> [error |-> "search: translation raised"],
              tcache |-> tr.cache, results |-> <<>>]
        ELSE [ret |-> [cases |-> cases, total_found |-> Len(cases),
                       original_query |-> query, search_queries |-> queries],
              tcache |-> tr.cache, results |-> results]

\* Bounds and inputs of the search harness
MaxLimit == 3

Limits == 0..MaxLimit

T_ttangkong == <<"ttang", "kong">>

\* Queries: one without a vocabulary term, one with one term, one whose
\* term contains a second term of the vocabulary
SearchQueries == {T_milk, T_uyu, T_ttangkong}

\* Replies of the translation service to the whole query
SearchReplies == {Failure, T_milk, <<" ", "p", "e", "a", "n", "u", "t">>}

\* Documents of the store: chunks of one recall notice share its url; a
\* document may carry no url.
Doc(u, c) == [url |-> u, chunk_index |-> c]

D1 == Doc(<<"u", "1">>, 0)

D1b == Doc(<<"u", "1">>, 1)

D2 == Doc(<<"u", "2">>, 0)

D3 == Doc(<<"u", "3">>, 0)

D0 == Doc(<<>>, 0)

\* Ranked answers of the store to one similarity search
Rankings ==
    { <<>>, <<D1, D1b, D2>>, <<D2, D0, D1, D3>>, <<D3, D1b>>, <<D0>> }

\* The store's answers to the successive search queries: the original query
\* gets ranking first, the expanded ones alternately other and first, and
\* the search number fail (if any) raises.
StoreAnswers(first, other, fail) ==
    [i \in 1..10 |-> IF i = fail THEN SearchError
                     ELSE IF i % 2 = 1 THEN Returns(first)
                     ELSE Returns(other)]

InitSearch ==
    /\ current_year = FirstYear
    /\ recalls = RowPool
    /\ \/ db_initialized = FALSE /\ sqlite_conn = None /\ vectorstore = None
       \/ db_initialized = TRUE /\ sqlite_conn = Conn /\ vectorstore = Store
       \/ db_initialized = TRUE /\ sqlite_conn = None /\ vectorstore = None
    /\ tcache \in InitialCaches
    /\ cache = <<>>
    /\ stored = {}
    /\ call = NoCall
    /\ ret = <<>>

SearchRecallCases ==
    \E query \in SearchQueries, limit \in Limits, reply \in SearchReplies,
       first \in Rankings, other \in Rankings, fail \in 0..2,
       db_up \in IF db_initialized THEN {TRUE} ELSE BOOLEAN :
        LET g == get_system_components(db_initialized, sqlite_conn,
                                       vectorstore, db_up, db_up)
            r == search_recall_cases(g.vectorstore, tcache,
                                     [t \in SearchQueries |-> reply],
                                     query, limit,
                                     StoreAnswers(first, other, fail))
        IN  /\ call = NoCall
            /\ call' = [op |-> "search_recall_cases", query |-> query,
                        limit |-> limit, results |-> r.results]
            /\ ret' = r.ret
            /\ tcache' = r.tcache
            /\ db_initialized' = g.db_initialized
            /\ sqlite_conn' = g.sqlite_conn
            /\ vectorstore' = g.vectorstore
            /\ UNCHANGED <<env, instance>>

NextSearch == SearchRecallCases

SpecSearch == InitSearch /\ [][NextSearch]_vars

\* The documents the store returned to a call, in the order returned
Returned == Flatten([i \in 1..Len(call.results) |->
                IF call.results[i].raised THEN <<>>
                ELSE call.results[i].docs])

\* The first position in q of a document with url u (0 when there is none)
FirstSeen(q, u) ==
    IF \E i \in 1..Len(q) : q[i].url = u
    THEN CHOOSE i \in 1..Len(q) :
            q[i].url = u /\ \A j \in 1..(i - 1) : q[j].url # u
    ELSE 0

\* C10: whatever the store returned for the search queries, the case list of
\* search_recall_cases has no two cases with the same url, every case is the
\* first returned document with its url, cases are in the order in which
\* their urls were first returned (search queries in order), and there are
\* at most limit cases.
C10_SearchDedup ==
    (call.op = "search_recall_cases" /\ "cases" \in DOMAIN ret) =>
        LET cases == ret.cases
        IN  /\ \A i, j \in 1..Len(cases) :
                  i # j => cases[i].url # cases[j].url
            /\ \A i \in 1..Len(cases) :
                  /\ FirstSeen(Returned, cases[i].url) # 0
                  /\ cases[i] = Returned[FirstSeen(Returned, cases[i].url)]
            /\ \A i, j \in 1..Len(cases) :
                  i < j => FirstSeen(Returned, cases[i].url)
                              < FirstSeen(Returned, cases[j].url)
            /\ Len(cases) <= call.limit
            /\ ret.total_found = Len(cases)

\* A call whose search queries returned overlapping documents, with more
\* distinct urls than the limit: duplicates were dropped and the list cut.
C10_Witness ==
    /\ call.op = "search_recall_cases"
    /\ "cases" \in DOMAIN ret
    /\ Len(call.results) >= 2
    /\ \E i, j \in 1..Len(Returned) : i # j /\ Returned[i].url = Returned[j].url
                                       /\ Returned[i].url # <<>>
    /\ Cardinality({Returned[i].url : i \in 1..Len(Returned)} \ {<<>>})
          > call.limit
    /\ Len(ret.cases) = call.limit
    /\ call.limit >= 2

\* C12: search_recall_cases returns an error object whenever the semantic
\* store is unavailable or a lookup in it failed.
C12_SearchErrorObject ==
    call.op = "search_recall_cases" =>
        ((vectorstore = None \/ \E i \in 1..Len(call.results) :
                                    call.results[i].raised)
            => "error" \in DOMAIN ret)

(***************************************************************************)
(* Response Cache: FunctionCallRecallSystem._get_cache_key and             *)
(* process_question                                                        *)
(***************************************************************************)
\* Punctuation: characters that are neither \w nor \s.  The underscore is a
\* word character for the regular expressions.
PunctChars == {"?", "!", ".", ",", "'", "-", ":", ";", "/", "(", ")", "[", "]",
               "=", "\"", "~", "%", "+", "+-"}

\* re.sub(r'[^\w\s]', '', s): only word characters and whitespace kept
StripPunct(s) == SelectSeq(s, LAMBDA c : c \notin PunctChars)

\* re.sub(r'\s+', '_', s): every maximal run of whitespace becomes one "_"
RECURSIVE CollapseSpace(_)
CollapseSpace(s) ==
    IF \A i \in 1..Len(s) : s[i] \notin SpaceChars THEN s
    ELSE LET i == CHOOSE k \in 1..Len(s) :
                      /\ s[k] \in SpaceChars
                      /\ \A j \in 1..(k - 1) : s[j] \notin SpaceChars
         IN  SubSeq(s, 1, i - 1) \o <<"_">>
             \o CollapseSpace(LStrip(SubSeq(s, i, Len(s))))

\* _get_cache_key(question)
get_cache_key(question) ==
    CollapseSpace(StripPunct(Strip(Lower(question))))

\* self.cache[key] = result
CachePut(c, key, result) ==
    [k \in DOMAIN c \cup {key} |-> IF k = key THEN result ELSE c[k]]

\* The decision service (self.llm.invoke) raises, answers with content only,
\* or asks for tool calls; a tool call names a tool and gives arguments,
\* which the tool's argument schema accepts or rejects (tool.invoke raises).
DecisionRaises == [kind |-> "raise", tool_calls |-> <<>>]

DecisionContent == [kind |-> "content", tool_calls |-> <<>>]

DecisionTools(tcs) == [kind |-> "tool_calls", tool_calls |-> tcs]

ToolCall(name, valid) == [name |-> name, args |-> NoFilters, valid |-> valid]

\* The names of self.tools
ToolNames == {"count_recalls", "rank_by_field", "get_monthly_trend",
              "compare_periods", "search_recall_cases",
              "filter_exclude_conditions"}

\* One tool result appended in front of those of the remaining tool calls
tool_result(t, result, rest) ==
    [results |-> <<[function |-> t.name, args |-> t.args,
                    result |-> result]>> \o rest.results,
     g |-> rest.g, raised |-> rest.raised]

\* The tool loop of process_question for tool calls tcs: tool_results, the
\* module globals afterwards, and whether a tool.invoke raised.  Calls to
\* count_recalls are run; a name that is no tool's name adds no result.
RECURSIVE RunTools(_, _, _, _, _, _)
invoke_tool(t, rest_calls, g1, rows, tc, db_up, exec_ok) ==
    tool_result(t,
                count_recalls(g1.sqlite_conn, rows, tc, SvcEcho, exec_ok,
                              t.args).ret,
                RunTools(rest_calls, g1, rows, tc, db_up, exec_ok))

RunTools(tcs, g, rows, tc, db_up, exec_ok) ==
    IF tcs = <<>> THEN [results |-> <<>>, g |-> g, raised |-> FALSE]
    ELSE IF Head(tcs).name \notin ToolNames
    THEN RunTools(Tail(tcs), g, rows, tc, db_up, exec_ok)
    ELSE IF ~Head(tcs).valid
    THEN [results |-> <<>>, g |-> g, raised |-> TRUE]
    ELSE invoke_tool(Head(tcs), Tail(tcs),
                     get_system_components(g.db_initialized, g.sqlite_conn,
                                           g.vectorstore, db_up, db_up),
                     rows, tc, db_up, exec_ok)

\* _generate_final_answer: the apology when there are no tool results, else
\* the answer service's text, or the basic answer when that service raised
generate_final_answer(tool_results, answer_ok) ==
    IF tool_results = <<>> THEN "not found"
    ELSE IF answer_ok THEN "generated" ELSE "basic"

\* A response object; id is the object's identity.
Response(answer, function_calls, processing_type, id) ==
    [answer |-> answer, function_calls |-> function_calls,
     processing_type |-> processing_type, id |-> id]

\* What process_question returns and leaves behind
Outcome(result, c, g, key, llm_invoked, is_stored) ==
    [ret |-> result, cache |-> c, g |-> g, key |-> key,
     llm_invoked |-> llm_invoked, stored |-> is_stored]

\* self.cache[cache_key] = result; return result
store_result(c, cache_key, result, g) ==
    Outcome(result, CachePut(c, cache_key, result), g, cache_key, TRUE, TRUE)

\* process_question from the decision service's reply on: run is the tool
\* loop's outcome, n the identity of a new response object
answer_question(c, g, n, cache_key, reply, run, answer_ok) ==
    IF reply.kind = "raise"
    THEN Outcome(Response("error", <<>>, "error", n), c, g, cache_key,
                 TRUE, FALSE)
    ELSE IF reply.tool_calls = <<>>
    THEN store_result(c, cache_key,
                      Response("content", <<>>, "direct_answer", n), g)
    ELSE IF run.raised
    THEN Outcome(Response("error", <<>>, "error", n), c, run.g, cache_key,
                 TRUE, FALSE)
    ELSE store_result(c, cache_key,
                      Response(generate_final_answer(run.results, answer_ok),
                               run.results, "function_calling", n),
                      run.g)

\* Mutant: the lookup never finds the key
lookup_never_hits(c, g, cache_key, miss) == miss

\* The cache lookup at the head of process_question
lookup(c, g, cache_key, miss) ==
    IF cache_key \in DOMAIN c
    THEN Outcome(c[cache_key], c, g, cache_key, FALSE, FALSE)
    ELSE miss

\* process_question(question) on an instance with cache c, as call number n:
\* what is returned, the cache and the globals afterwards, whether the
\* decision service was invoked.
process_question(c, g, rows, tc, n, question, reply, db_up, exec_ok, answer_ok) ==
    lookup(c, g, get_cache_key(question),
           answer_question(c, g, n, get_cache_key(question), reply,
               RunTools(reply.tool_calls, g, rows, tc, db_up, exec_ok),
               answer_ok))

\* Bounds and inputs of the question harness
MaxCalls == 2

\* Questions: one word in several spellings (case, blanks and punctuation
\* around it), two words in several spellings, and other questions
Questions ==
    { <<"a">>, <<"A">>, <<" ", "a", " ">>, <<"a", "?">>, <<"a", " ", "?">>,
      <<"?", " ", "a">>, <<"a", " ", "b">>, <<"A", " ", " ", "b", "!">>,
      <<"a", "_", "b">>, <<"a", "b">> }

DecisionReplies ==
    { DecisionRaises, DecisionContent,
      DecisionTools(<<ToolCall("count_recalls", TRUE)>>),
      DecisionTools(<<ToolCall("count_recalls", FALSE)>>),
      DecisionTools(<<ToolCall("web_search", TRUE)>>),
      DecisionTools(<<ToolCall("count_recalls", TRUE),
                      ToolCall("count_recalls", FALSE)>>),
      DecisionTools(<<ToolCall("count_recalls", FALSE),
                      ToolCall("count_recalls", TRUE)>>) }

\* What the call record holds for the reply when the service was not asked
NoReply == [kind |-> "none", tool_calls |-> <<>>]

\* The words of a question: lower case, punctuation dropped, split at
\* whitespace.  Questions with the same words differ only in whitespace,
\* letter case or punctuation.
RECURSIVE SplitWords(_)
SplitWords(s) ==
    LET t == LStrip(s)
        n == IF \E i \in 1..Len(t) : t[i] \in SpaceChars
             THEN (CHOOSE i \in 1..Len(t) :
                      t[i] \in SpaceChars /\ \A j \in 1..(i - 1) : t[j] \notin SpaceChars) - 1
             ELSE Len(t)
    IN  IF t = <<>> THEN <<>>
        ELSE <<SubSeq(t, 1, n)>> \o SplitWords(SubSeq(t, n + 1, Len(t)))

WordsOf(question) == SplitWords(StripPunct(Lower(question)))

InitAsk ==
    /\ current_year = FirstYear
    /\ recalls = RowPool
    /\ db_initialized = FALSE
    /\ sqlite_conn = None
    /\ vectorstore = None
    /\ tcache = <<>>
    /\ cache = <<>>
    /\ stored = {}
    /\ call = NoCall
    /\ ret = <<>>

Calls == IF call = NoCall THEN 0 ELSE call.n

\* The state after a call of process_question that returned outcome r
AfterQuestion(question, reply, r) ==
    /\ call' = [op |-> "process_question", question |-> question,
                key |-> r.key, llm_invoked |-> r.llm_invoked,
                reply |-> IF r.llm_invoked THEN reply ELSE NoReply,
                prior |-> stored, n |-> Calls + 1]
    /\ ret' = r.ret
    /\ cache' = r.cache
    /\ stored' = IF r.stored
                 THEN stored \cup {[words |-> WordsOf(question),
                                    key |-> r.key, result |-> r.ret]}
                 ELSE stored
    /\ db_initialized' = r.g.db_initialized
    /\ sqlite_conn' = r.g.sqlite_conn
    /\ vectorstore' = r.g.vectorstore

ProcessQuestion ==
    \E question \in Questions, reply \in DecisionReplies,
       db_up \in IF db_initialized THEN {TRUE} ELSE BOOLEAN,
       answer_ok \in BOOLEAN :
        /\ Calls < MaxCalls
        /\ (\A i \in 1..Len(reply.tool_calls) :
                reply.tool_calls[i].name \notin ToolNames
                    \/ ~reply.tool_calls[i].valid)
              => (db_up /\ answer_ok)
        /\ AfterQuestion(question, reply,
               process_question(cache,
                   [db_initialized |-> db_initialized,
                    sqlite_conn |-> sqlite_conn, vectorstore |-> vectorstore],
                   recalls, tcache, Calls + 1, question, reply, db_up, TRUE,
                   answer_ok))
        /\ UNCHANGED <<env, tcache>>

NextAsk == ProcessQuestion

SpecAsk == InitAsk /\ [][NextAsk]_vars

\* C2: a call of process_question whose question has the words of a question
\* an earlier call stored a response for (the two differ only in whitespace,
\* letter case or punctuation, also at the start or the end) returns that
\* stored response object, and the decision service is not called.
C2_CacheIdempotence ==
    call.op = "process_question" =>
        \A p \in call.prior :
            p.words = WordsOf(call.question) =>
                ret = p.result /\ ~call.llm_invoked


\* The tool calls of a reply that name a tool and that the tool accepts
Runnable(tool_calls) ==
    SelectSeq(tool_calls, LAMBDA t : t.name \in ToolNames /\ t.valid)

\* C13: when the decision service selected operations, the response holds in
\* function_calls the result of every selected operation that can run,
\* whether or not another selected operation returned an error or raised.
C13_SiblingOperationsRun ==
    (call.op = "process_question" /\ call.reply.kind = "tool_calls") =>
        Len(ret.function_calls) = Len(Runnable(call.reply.tool_calls))


\* C15: every key a response was ever stored under still maps to the
\* response object first stored under it, and a call whose key was present
\* returns that object without the decision service being called or an
\* operation selected.
C15_CacheNeverOverwritten ==
    /\ \A p \in stored : p.key \in DOMAIN cache /\ cache[p.key] = p.result
    /\ call.op = "process_question" =>
          \A p \in call.prior :
              p.key = call.key =>
                  /\ ret = p.result
                  /\ ~call.llm_invoked
                  /\ call.reply = NoReply
                  /\ stored = call.prior

\* A second call found its key in the cache, with a question spelled
\* differently from the one that created the entry.
C15_Witness ==
    /\ call.op = "process_question"
    /\ call.n = MaxCalls
    /\ call.question = <<"a", "?">>
    /\ \E p \in call.prior : p.key = call.key /\ ret = p.result
    /\ ret.processing_type = "function_calling"

(***************************************************************************)
(* Hint Builder: RecallAgent._make_hint                                    *)
(***************************************************************************)
\* Some key of the set occurs in the text: any(k in q_raw for k in [...])
AnyIn(q_raw, keys) == \E k \in keys : Contains(q_raw, k)

\* The index of the first character at or after i that is not whitespace
RECURSIVE SkipSpace(_, _)
SkipSpace(q, i) ==
    IF i <= Len(q) /\ q[i] \in SpaceChars THEN SkipSpace(q, i + 1) ELSE i

\* The index after the longest run of digits that starts at i (\d+, greedy)
RECURSIVE SkipDigits(_, _)
SkipDigits(q, i) ==
    IF i <= Len(q) /\ q[i] \in DigitChars THEN SkipDigits(q, i + 1) ELSE i

\* The word w stands in q at index i
At(q, i, w) == i + Len(w) - 1 <= Len(q) /\ SubSeq(q, i, i + Len(w) - 1) = w

\* int(s) for a text of digits
RECURSIVE ToInt(_)
ToInt(s) ==
    IF s = <<>> THEN 0
    ELSE 10 * ToInt(SubSeq(s, 1, Len(s) - 1))
            + (CHOOSE d \in 0..9 : Digits[d + 1] = s[Len(s)])

W_sangwi == <<"sang", "wi">>

W_top == <<"t", "o", "p">>

W_choegeun == <<"choe", "geun">>

W_gaewol == <<"gae", "wol">>

W_gae == <<"gae">>

\* A run of digits from index i that the words before and after it make a
\* match of the pattern; <<>> when there is none
DigitsFrom(q, i, after) ==
    LET j == SkipDigits(q, i)
    IN  IF j > i /\ (after = <<>> \/ At(q, SkipSpace(q, j), after))
        THEN SubSeq(q, i, j - 1) ELSE <<>>

\* The digits captured by a match of
\*   (?:sangwi\s*(\d+)|top\s*(\d+)|choegeun\s*(\d+)\s*gaewol|(\d+)\s*gae)
\* (re.IGNORECASE) that starts at index i; <<>> when none starts there
NumberAt(q, i) ==
    IF At(q, i, W_sangwi) THEN DigitsFrom(q, SkipSpace(q, i + 2), <<>>)
    ELSE IF At(Lower(q), i, W_top) THEN DigitsFrom(q, SkipSpace(q, i + 3), <<>>)
    ELSE IF At(q, i, W_choegeun) /\ DigitsFrom(q, SkipSpace(q, i + 2), W_gaewol) # <<>>
    THEN DigitsFrom(q, SkipSpace(q, i + 2), W_gaewol)
    ELSE DigitsFrom(q, i, W_gae)

\* An optional number: NoNumber for Python's None, <<n>> for the int n
NoNumber == <<>>

\* n_val: the number of the leftmost match (re.search), None without a match
n_val(q_raw) ==
    LET hits == {i \in 1..Len(q_raw) : NumberAt(q_raw, i) # <<>>}
    IN  IF hits = {} THEN NoNumber
        ELSE <<ToInt(NumberAt(q_raw,
                              CHOOSE i \in hits : \A j \in hits : i <= j))>>

\* years = re.findall(r'(20\d{2})', q_raw): leftmost non-overlapping matches
RECURSIVE find_years(_)
find_years(q) ==
    IF Len(q) < 4 THEN <<>>
    ELSE IF q[1] = "2" /\ q[2] = "0" /\ q[3] \in DigitChars /\ q[4] \in DigitChars
         THEN <<SubSeq(q, 1, 4)>> \o find_years(SubSeq(q, 5, Len(q)))
         ELSE find_years(Tail(q))

last_markers ==
    {<<"jak", "nyeon">>,
     <<"ji", "nan", "hae">>,
     <<"jeon", "nyeon">>}

this_markers ==
    {<<"ol", "hae">>,
     <<"geum", "nyeon">>}

compare_markers ==
    {<<"bi", "gyo">>,
     <<"dae", "bi">>,
     <<"v", "s">>,
     <<"jeon", "nyeon", " ", "dae", "bi">>,
     <<"jeon", "nyeon", "dae", "bi">>}

exclude_triggers ==
    {<<"je", "oe">>,
     <<"ppae", "go">>,
     <<"ppae", "jwo">>,
     <<"ppae", "seo">>,
     <<"je", "oe", "hae">>,
     <<"je", "oe", "han">>,
     <<"w", "i", "t", "h", "o", "u", "t">>,
     <<"e", "x", "c", "e", "p", "t">>}

exclude_markers ==
    {<<"je", "oe">>,
     <<"ppae", "go">>,
     <<"w", "i", "t", "h", "o", "u", "t">>,
     <<"e", "x", "c", "e", "p", "t">>}

trend_markers ==
    {<<"wol", "byeol">>,
     <<"wol", "gan">>,
     <<"chu", "ii">>,
     <<"teu", "ren", "deu">>,
     <<"heu", "reum">>,
     <<"dong", "hyang">>,
     <<"pae", "teon">>}

rank_markers ==
    {<<"sang", "wi">>,
     <<"sun", "wi">>,
     <<"raeng", "king">>,
     <<"ga", "jang", " ", "manh", "eun">>,
     <<"t", "o", "p">>,
     <<"choe", "da">>,
     <<"be", "seu", "teu">>}

count_markers ==
    {<<"myeoch", " ", "geon">>,
     <<"geon", "su">>,
     <<"chong", " ", "myeoch">>,
     <<"chong", "geon", "su">>,
     <<"h", "o", "w", " ", "m", "a", "n", "y">>,
     <<"c", "o", "u", "n", "t">>}

cases_markers ==
    {<<"sa", "rye">>,
     <<"mok", "rok">>,
     <<"ri", "seu", "teu">>,
     <<"bo", "yeo", "jwo">>,
     <<"eo", "tteon", " ", "je", "pum">>,
     <<"mu", "eos", "ii", "eoss">>,
     <<"c", "a", "s", "e">>,
     <<"e", "x", "a", "m", "p", "l", "e", "s">>,
     <<"je", "pum", "deul">>}

risk_markers ==
    {<<"wi", "heom">>,
     <<"chi", "myeong">>,
     <<"jung", "dae">>,
     <<"s", "e", "r", "i", "o", "u", "s">>,
     <<"c", "l", "a", "s", "s", " ", "i">>,
     <<"i", "n", "j", "u", "r", "y">>,
     <<"d", "e", "a", "t", "h">>}

reason_words ==
    {<<"won", "in">>,
     <<"sa", "yu">>,
     <<"r", "e", "a", "s", "o", "n">>}

company_words ==
    {<<"hoe", "sa">>,
     <<"gi", "eop">>,
     <<"c", "o", "m", "p", "a", "n", "y">>}

brand_words ==
    {<<"beu", "raen", "deu">>,
     <<"sang", "pyo">>,
     <<"b", "r", "a", "n", "d">>}

product_words ==
    {<<"je", "pum">>,
     <<"sik", "pum">>,
     <<"p", "r", "o", "d", "u", "c", "t">>}

W_jaejaknyeon == <<"jae", "jak", "nyeon">>

has_last(q_raw) == AnyIn(q_raw, last_markers)

has_this(q_raw) == AnyIn(q_raw, this_markers)

has_both_relative(q_raw) == has_last(q_raw) /\ has_this(q_raw)

explicit_compare(q_raw) == AnyIn(q_raw, compare_markers)

two_years(q_raw) == Cardinality(Range(find_years(q_raw))) >= 2

is_exclude(q_raw) == AnyIn(q_raw, exclude_triggers)

is_trend(q_raw) ==
    AnyIn(q_raw, trend_markers)
        \/ (Contains(q_raw, W_choegeun) /\ Contains(q_raw, W_gaewol))

is_rank(q_raw) == AnyIn(q_raw, rank_markers)

is_count(q_raw) == AnyIn(q_raw, count_markers)

is_cases(q_raw) == AnyIn(q_raw, cases_markers)

is_riskish(q_raw) == AnyIn(q_raw, risk_markers)

\* The characters of the class [\w\s,/] of the exclusion pattern
ExcludeClass(c) == c \notin PunctChars \/ c \in {",", "/"}

W_neun == <<"neun">>

W_eun == <<"eun">>

\* \s*(?:neun|eun)?\s*(?:marker) matches at index j
ExcludeTail(q, j) ==
    LET a == SkipSpace(q, j)
    IN  \/ \E mk \in exclude_markers : At(q, a, mk)
        \/ /\ At(q, a, W_neun) \/ At(q, a, W_eun)
           /\ \E mk \in exclude_markers : At(q, SkipSpace(q, a + 1), mk)

\* The ends j (exclusive) of a group ([\w\s,/]+?) that starts at index i and
\* is followed by a match of the tail
GroupEnds(q, i) ==
    {j \in (i + 1)..(Len(q) + 1) :
        /\ \A k \in i..(j - 1) : ExcludeClass(q[k])
        /\ ExcludeTail(q, j)}

\* m.group(1) of re.search: leftmost start, shortest group; None if no match
exclude_match(q) ==
    LET starts == {i \in 1..Len(q) : GroupEnds(q, i) # {}}
        i0     == CHOOSE i \in starts : \A k \in starts : i <= k
        j0     == CHOOSE j \in GroupEnds(q, i0) : \A k \in GroupEnds(q, i0) : j <= k
    IN  IF starts = {} THEN None ELSE SubSeq(q, i0, j0 - 1)

\* re.split(r'[,\s/]+', cand), the empty pieces dropped
RECURSIVE SplitTerms(_)
SplitTerms(s) ==
    LET IsSep(c) == c \in SpaceChars \/ c \in {",", "/"}
        seps == {i \in 1..Len(s) : IsSep(s[i])}
        n    == IF seps = {} THEN Len(s) + 1
                ELSE CHOOSE i \in seps : \A k \in seps : i <= k
    IN  IF s = <<>> THEN <<>>
        ELSE IF n = 1 THEN SplitTerms(Tail(s))
        ELSE <<SubSeq(s, 1, n - 1)>> \o SplitTerms(SubSeq(s, n + 1, Len(s)))

\* exclude_terms: the distinct pieces of the matched group, of at most 20
\* characters each
exclude_terms(q_raw) ==
    IF exclude_match(q_raw) = None THEN <<>>
    ELSE Unique(SelectSeq(SplitTerms(Strip(exclude_match(q_raw))),
                          LAMBDA t : Len(t) <= 20))

\* year_hint of the case branch; None when the question carries no year
year_hint(q_raw, year) ==
    IF has_this(q_raw) THEN Str(year)
    ELSE IF has_last(q_raw) THEN Str(year - 1)
    ELSE IF Contains(q_raw, W_jaejaknyeon) THEN Str(year - 2)
    ELSE IF find_years(q_raw) # <<>> THEN find_years(q_raw)[1]
    ELSE None

\* Python's "n_val or default": the default for None and for 0
or_default(n, default) == IF n = NoNumber \/ n = <<0>> THEN default ELSE n[1]

\* months = min(max(n_val or 12, 3), 24)
hint_months(n) == Min(Max(or_default(n, 12), 3), 24)

\* limit = min(max(n_val or 5, 3), 20)
hint_limit(n) == Min(Max(or_default(n, 5), 3), 20)

\* field of the rank hint
hint_field(q_raw) ==
    IF AnyIn(q_raw, reason_words) THEN "recall_reason_detail"
    ELSE IF AnyIn(q_raw, company_words) THEN "company"
    ELSE IF AnyIn(q_raw, brand_words) THEN "brand"
    ELSE IF AnyIn(q_raw, product_words) THEN "product_type"
    ELSE "recall_reason"

W_jaknyeon == <<"jak", "nyeon">>

W_olhae == <<"ol", "hae">>

\* The hints.  fn is the operation the hint recommends ("any" for the
\* fallback hint), template the wording used, the other fields what the
\* wording is filled with.
ExcludeHint(terms) ==
    [fn |-> "filter_exclude_conditions", template |-> "exclude",
     exclude_terms |-> terms]

CasesHint(yh) ==
    [fn |-> "search_recall_cases",
     template |-> IF yh = None THEN "cases" ELSE "cases_year", year_hint |-> yh]

CompareHint(template, p1, p2) ==
    [fn |-> "compare_periods", template |-> template,
     period1 |-> p1, period2 |-> p2]

TrendHint(months) ==
    [fn |-> "get_monthly_trend", template |-> "trend", months |-> months]

RankHint(field, limit) ==
    [fn |-> "rank_by_field", template |-> "rank", field |-> field,
     limit |-> limit]

CountHint == [fn |-> "count_recalls", template |-> "count"]

FallbackHint == [fn |-> "any", template |-> "fallback"]

\* Mutant: the comparison branch tested before the case branch
make_hint_compare_first(q, year) ==
    LET q_raw == IF q = None THEN <<>> ELSE q
    IN  IF is_exclude(q_raw) THEN ExcludeHint(exclude_terms(q_raw))
        ELSE IF has_both_relative(q_raw)
        THEN CompareHint("compare_relative", W_jaknyeon, W_olhae)
        ELSE IF two_years(q_raw)
        THEN CompareHint("compare_years", find_years(q_raw)[1],
                         find_years(q_raw)[2])
        ELSE IF explicit_compare(q_raw)
        THEN CompareHint("compare_default", W_jaknyeon, W_olhae)
        ELSE IF is_cases(q_raw) \/ is_riskish(q_raw)
        THEN CasesHint(year_hint(q_raw, year))
        ELSE IF is_trend(q_raw) THEN TrendHint(hint_months(n_val(q_raw)))
        ELSE IF is_rank(q_raw)
        THEN RankHint(hint_field(q_raw), hint_limit(n_val(q_raw)))
        ELSE IF is_count(q_raw) THEN CountHint
        ELSE FallbackHint

\* _make_hint(q) in a year
make_hint(q, year) ==
    LET q_raw == IF q = None THEN <<>> ELSE q
    IN  IF is_exclude(q_raw) THEN ExcludeHint(exclude_terms(q_raw))
        ELSE IF is_cases(q_raw) \/ is_riskish(q_raw)
        THEN CasesHint(year_hint(q_raw, year))
        ELSE IF has_both_relative(q_raw)
        THEN CompareHint("compare_relative", W_jaknyeon, W_olhae)
        ELSE IF two_years(q_raw)
        THEN CompareHint("compare_years", find_years(q_raw)[1],
                         find_years(q_raw)[2])
        ELSE IF explicit_compare(q_raw)
        THEN CompareHint("compare_default", W_jaknyeon, W_olhae)
        ELSE IF is_trend(q_raw) THEN TrendHint(hint_months(n_val(q_raw)))
        ELSE IF is_rank(q_raw)
        THEN RankHint(hint_field(q_raw), hint_limit(n_val(q_raw)))
        ELSE IF is_count(q_raw) THEN CountHint
        ELSE FallbackHint

\* Bounds and inputs of the hint harness: questions are up to MaxPhrases
\* phrases joined by blanks.
MaxPhrases == 3

Phrases ==
    {<<"uu", "yu", " ", "je", "oe">>,
     <<"sa", "rye">>,
     <<"bi", "gyo">>,
     <<"wol", "byeol">>,
     <<"sang", "wi", " ", "0">>,
     <<"t", "o", "p", " ", "3", "0">>,
     <<"T", "O", "P", " ", "3", "0">>,
     <<"choe", "geun", " ", "6", "gae", "wol">>,
     <<"myeoch", " ", "geon">>,
     <<"jak", "nyeon">>,
     <<"ol", "hae">>,
     <<"jae", "jak", "nyeon">>,
     <<"2", "0", "2", "4">>,
     <<"2", "0", "2", "3">>}

RECURSIVE JoinPhrases(_)
JoinPhrases(ps) ==
    IF ps = <<>> THEN <<>>
    ELSE IF Len(ps) = 1 THEN ps[1]
    ELSE ps[1] \o <<" ">> \o JoinPhrases(Tail(ps))

HintQuestions ==
    {JoinPhrases(ps) : ps \in StringsUpTo(Phrases, MaxPhrases)} \cup {None}

MakeHint ==
    \E q \in HintQuestions :
        /\ call = NoCall
        /\ call' = [op |-> "_make_hint", q |-> IF q = None THEN <<>> ELSE q]
        /\ ret' = make_hint(q, current_year)
        /\ UNCHANGED <<env, globals, tcache, instance>>

NextHint == MakeHint

SpecHint == InitDates /\ [][NextHint]_vars

\* The branch of the precedence a question falls into: the first of the
\* signals, in the documented order, that the question carries
FirstSignal(q) ==
    IF is_exclude(q) THEN "filter_exclude_conditions"
    ELSE IF is_cases(q) \/ is_riskish(q) THEN "search_recall_cases"
    ELSE IF explicit_compare(q) \/ has_both_relative(q) \/ two_years(q)
    THEN "compare_periods"
    ELSE IF is_trend(q) THEN "get_monthly_trend"
    ELSE IF is_rank(q) THEN "rank_by_field"
    ELSE IF is_count(q) THEN "count_recalls"
    ELSE "any"

\* C16: _make_hint returns for every question (the empty one and None too)
\* the hint of the first signal present, in the order exclusion, case/risk,
\* comparison, trend, ranking, count; the fallback hint without a signal.
C16_HintPrecedence ==
    call.op = "_make_hint" => ret.fn = FirstSignal(call.q)

\* A question with a case signal and a comparison signal got the search hint.
C16_Witness ==
    /\ call.op = "_make_hint"
    /\ is_cases(call.q)
    /\ explicit_compare(call.q)
    /\ is_rank(call.q)
    /\ ret.fn = "search_recall_cases"

\* clamp of n to [lo, hi]
Clamp(n, lo, hi) == IF n < lo THEN lo ELSE IF n > hi THEN hi ELSE n

\* C17: the month window of the trend hint is the extracted number clamped to
\* [3, 24] (12 without a number), the count of the rank hint the extracted
\* number clamped to [3, 20] (5 without a number), for every number from 0.
C17_HintNumbers ==
    call.op = "_make_hint" =>
        /\ ret.fn = "get_monthly_trend" =>
              ret.months = IF n_val(call.q) = NoNumber THEN 12
                           ELSE Clamp(n_val(call.q)[1], 3, 24)
        /\ ret.fn = "rank_by_field" =>
              ret.limit = IF n_val(call.q) = NoNumber THEN 5
                          ELSE Clamp(n_val(call.q)[1], 3, 20)

\* C18: a comparison hint is given only with an explicit compare marker, both
\* relative markers or two distinct years; and when it names years, these are
\* two distinct years of the question.
C18_CompareHint ==
    (call.op = "_make_hint" /\ ret.fn = "compare_periods") =>
        /\ explicit_compare(call.q) \/ has_both_relative(call.q)
              \/ two_years(call.q)
        /\ ret.template = "compare_years" =>
              /\ ret.period1 # ret.period2
              /\ {ret.period1, ret.period2} \subseteq Range(find_years(call.q))

\* The relative expressions of a question: 'last year' counted only where it
\* is not the tail of 'the year before last'
SaysThisYear(q) == AnyIn(q, this_markers)

SaysYearBeforeLast(q) == Contains(q, W_jaejaknyeon)

SaysLastYear(q) ==
    \E w \in last_markers, i \in 1..Len(q) :
        At(q, i, w) /\ ~(w = W_jaknyeon /\ i > 1 /\ q[i - 1] = "jae")

\* C19: in the case branch a question with one relative year expression gets
\* that year resolved into the search seed: this year Y, last year Y-1, the
\* year before last Y-2; a question with only an absolute year gets that
\* year.
C19_CaseYear ==
    (call.op = "_make_hint" /\ ret.fn = "search_recall_cases") =>
        /\ (SaysThisYear(call.q) /\ ~SaysLastYear(call.q)
              /\ ~SaysYearBeforeLast(call.q))
              => ret.year_hint = Str(current_year)
        /\ (SaysLastYear(call.q) /\ ~SaysThisYear(call.q)
              /\ ~SaysYearBeforeLast(call.q))
              => ret.year_hint = Str(current_year - 1)
        /\ (SaysYearBeforeLast(call.q) /\ ~SaysThisYear(call.q)
              /\ ~SaysLastYear(call.q))
              => ret.year_hint = Str(current_year - 2)
        /\ (~SaysThisYear(call.q) /\ ~SaysLastYear(call.q)
              /\ ~SaysYearBeforeLast(call.q) /\ find_years(call.q) # <<>>)
              => ret.year_hint \in Range(find_years(call.q))

(***************************************************************************)
(* Period comparison: compare_periods                                      *)
(***************************************************************************)
\* What get_period_data returns for a period it cannot read (Python's None)
NoPeriodData == [none |-> TRUE]

\* The filters added to the date filter in get_period_data; t gives each
\* filter's search terms (<<>> when the filter is not applied)
PeriodWhere(row, width, period, t) ==
    And3({ SqlDateIs(row.fda_publish_date, width, period),
           IF t.keyword = <<>> THEN "T"
              ELSE AnyLike(row, FiveColumns, t.keyword),
           IF t.product_type = <<>> THEN "T"
              ELSE AnyLike(row, {"product_type"}, t.product_type),
           IF t.company = <<>> THEN "T"
              ELSE AnyLike(row, {"company_name"}, t.company),
           IF t.brand = <<>> THEN "T"
              ELSE AnyLike(row, {"brand_name"}, t.brand) })

\* get_period_data(period) over the table, for metric "count" and the FDA
\* date: the total of the period, None for a period of neither 4 nor 7
\* characters
get_period_data(rows, period, t) ==
    IF Len(period) \in {4, 7}
    THEN [total |-> Cardinality({r \in rows :
                        PeriodWhere(r, Len(period), period, t) = "T"})]
    ELSE NoPeriodData

\* compare_periods(period1, period2, **a) with metric "count", date_field
\* "fda" and include_reasons False, with connection conn over the table rows
\* in a year, translation cache tc and service svc; exec_ok tells whether
\* cursor.execute succeeds.  The set of possible outcomes (see Round1), each
\* the result object and the translation cache afterwards.
compare_periods(conn, rows, tc, svc, year, exec_ok, period1, period2, a) ==
    IF conn = None
    THEN {[ret |-> [error |-> "sqlite connection"], tcache |-> tc]}
    ELSE
    LET actual_period1 == parse_relative_dates(period1, year)
        actual_period2 == parse_relative_dates(period2, year)
        filters == << [arg |-> "keyword", term |-> a.keyword],
                      [arg |-> "product_type", term |-> a.product_type],
                      [arg |-> "company", term |-> a.company],
                      [arg |-> "brand", term |-> a.brand] >>
        used    == SelectSeq(filters, LAMBDA f : Truthy(f.term))
        ks      == [i \in 1..Len(used) |-> used[i].term]
        first   == TranslateRun(tc, svc, ks)
        TermsOf(arg) ==
            IF \E i \in 1..Len(used) : used[i].arg = arg
            THEN LET i == CHOOSE j \in 1..Len(used) : used[j].arg = arg
                 IN  expand(used[i].term, first.out[i])
            ELSE <<>>
        t       == [keyword |-> TermsOf("keyword"),
                    product_type |-> TermsOf("product_type"),
                    company |-> TermsOf("company"),
                    brand |-> TermsOf("brand")]
        data1 == get_period_data(rows, actual_period1, t)
        data2 == get_period_data(rows, actual_period2, t)
    IN  IF data1 = NoPeriodData
        THEN {[ret |-> [error |-> "period format"], tcache |-> tc]}
        ELSE IF ~exec_ok
        THEN {[ret |-> [error |-> "compare: query failed"],
               tcache |-> first.cache]}
        ELSE IF data2 = NoPeriodData
        THEN {[ret |-> [error |-> "period format"], tcache |-> first.cache]}
        ELSE {[ret |-> [period1 |-> [period |-> period1, data |-> data1],
                        period2 |-> [period |-> period2, data |-> data2],
                        comparison |-> c,
                        actual_periods |-> <<actual_period1, actual_period2>>],
               tcache |-> TranslateRun(first.cache, svc, ks).cache] :
                 c \in comparison(data1.total, data2.total)}

\* Periods a caller passes: years, months, relative expressions, other text
PeriodArgs ==
    {<<"2", "0", "2", "4">>, <<"2", "0", "2", "3">>,
     <<"2", "0", "2", "4", "-", "0", "5">>,
     <<"2", "0", "2", "5", "-", "0", "1">>,
     <<"jak", "nyeon">>, <<"ol", "hae">>, <<"Q", "1">>}

NoCompareFilters ==
    [product_type |-> None, company |-> None, brand |-> None,
     keyword |-> None]

\* One filter, or product_type and keyword together
CompareFilters ==
    {[NoCompareFilters EXCEPT ![f] = t] :
        f \in DOMAIN NoCompareFilters, t \in Terms}
        \cup {[NoCompareFilters EXCEPT !.product_type = T_milk,
                                       !.keyword = t] : t \in Terms}

\* The calls made: any two periods without filters, or two years with filters
CompareCalls ==
    {[period1 |-> p1, period2 |-> p2, filters |-> NoCompareFilters] :
        p1 \in PeriodArgs, p2 \in PeriodArgs}
        \cup {[period1 |-> p1, period2 |-> <<"2", "0", "2", "4">>,
               filters |-> a] :
                 p1 \in {<<"2", "0", "2", "4">>, <<"2", "0", "2", "3">>},
                 a \in CompareFilters}

ComparePeriods ==
    \E c \in CompareCalls, svc \in {"echo", "dict"}, exec_ok \in BOOLEAN,
       db_up \in IF db_initialized THEN {TRUE} ELSE BOOLEAN :
        LET g == get_system_components(db_initialized, sqlite_conn,
                                       vectorstore, db_up, db_up)
        IN  /\ call = NoCall
            /\ g.sqlite_conn = None => exec_ok
            /\ c.filters = NoCompareFilters => svc = "echo"
            /\ call' = [op |-> "compare_periods", period1 |-> c.period1,
                        period2 |-> c.period2, filters |-> c.filters,
                        svc |-> svc, tcache |-> tcache, exec_ok |-> exec_ok]
            /\ \E r \in compare_periods(g.sqlite_conn, recalls, tcache,
                            Svc(svc), current_year, exec_ok, c.period1,
                            c.period2, c.filters) :
                  /\ ret' = r.ret
                  /\ tcache' = r.tcache
            /\ db_initialized' = g.db_initialized
            /\ sqlite_conn' = g.sqlite_conn
            /\ vectorstore' = g.vectorstore
            /\ UNCHANGED <<env, instance>>

NextPeriods == ComparePeriods

SpecPeriods == InitStore /\ [][NextPeriods]_vars

\* A period written as a year, as a month of a year
IsYearText(p) == FourDigits(p)

IsMonthText(p) ==
    /\ Len(p) = 7
    /\ FourDigits(SubSeq(p, 1, 4))
    /\ p[5] = "-"
    /\ p[6] \in DigitChars /\ p[7] \in DigitChars

\* The rows of the table published in the period (a year or a month)
RowsOf(p) == {r \in recalls : SubSeq(r.fda_publish_date, 1, Len(p)) = p}

\* C20: with a connection and queries that run, a period YYYY is compared by
\* the rows of that year, a period YYYY-MM by the rows of that month, and a
\* period that is no relative expression and has neither 4 nor 7 characters
\* gives an error object.
C20_PeriodGranularity ==
    (call.op = "compare_periods" /\ sqlite_conn = Conn /\ call.exec_ok) =>
        /\ \A side \in {"period1", "period2"} :
              (~Recognised(call[side]) /\ Len(call[side]) \notin {4, 7})
                  => "error" \in DOMAIN ret
        /\ "error" \notin DOMAIN ret =>
              \A side \in {"period1", "period2"} :
                  (IsYearText(call[side]) \/ IsMonthText(call[side]))
                      => ret[side].data.total = Cardinality(RowsOf(call[side]))

(***************************************************************************)
(* The agent: RecallAgent._compose_query and RecallAgent.run               *)
(***************************************************************************)
\* str(field) for the fields the rank hint names
FieldText(field) ==
    CASE field = "recall_reason_detail" ->
           <<"r", "e", "c", "a", "l", "l", "_", "r", "e", "a", "s", "o", "n",
             "_", "d", "e", "t", "a", "i", "l">>
      [] field = "company" -> <<"c", "o", "m", "p", "a", "n", "y">>
      [] field = "brand" -> <<"b", "r", "a", "n", "d">>
      [] field = "product_type" ->
           <<"p", "r", "o", "d", "u", "c", "t", "_", "t", "y", "p", "e">>
      [] OTHER ->
           <<"r", "e", "c", "a", "l", "l", "_", "r", "e", "a", "s", "o", "n">>

\* Python's text of a list of terms without quotes in them: ['a', 'b']
RECURSIVE ListItems(_)
ListItems(terms) ==
    IF terms = <<>> THEN <<>>
    ELSE <<"'">> \o Head(terms) \o <<"'">>
         \o (IF Tail(terms) = <<>> THEN <<>> ELSE <<",", " ">>)
         \o ListItems(Tail(terms))

ListRepr(terms) == <<"[">> \o ListItems(terms) \o <<"]">>

\* The text _make_hint returns for a hint.  The fixed wording is given one
\* element per character ("+-" stands for the plus-minus sign).
HintText(hint) ==
    LET
        H_exclude_head ==
            <<"[", "hin", "teu", "]", " ", "ga", "neung", "ha", "myeon", " ", "f",
              "i", "l", "t", "e", "r", "_", "e", "x", "c", "l", "u", "d", "e", "_",
              "c", "o", "n", "d", "i", "t", "i", "o", "n", "s", "(", "i", "n", "c",
              "l", "u", "d", "e", "_", "t", "e", "r", "m", "s", "=", "[", ".", ".",
              ".", "]", ",", " ", "e", "x", "c", "l", "u", "d", "e", "_", "t", "e",
              "r", "m", "s", "=">>
        H_exclude_tail ==
            <<",", " ", "l", "i", "m", "i", "t", "=", "1", "0", ")", " ", "ham",
              "su", "reul", " ", "sa", "yong", "hae", " ", "je", "oe", " ", "jo",
              "geon", "eul", " ", "jeok", "yong", "ha", "go", ",", " ", "pyo",
              "ro", " ", "haek", "sim", " ", "sa", "rye", "reul", " ", "bo", "yeo",
              "jwo", ".">>
        H_exclude_any ==
            <<"[", ".", ".", ".", "]">>
        H_cases_year_head ==
            <<"[", "hin", "teu", "]", " ", "ga", "neung", "ha", "myeon", " ", "s",
              "e", "a", "r", "c", "h", "_", "r", "e", "c", "a", "l", "l", "_", "c",
              "a", "s", "e", "s", "(", "q", "u", "e", "r", "y", "=", "\"">>
        H_cases_year_tail ==
            <<" ", "wi", "heom", " ", "ri", "kol", " ", "sa", "rye", "\"", " ",
              "tto", "neun", " ", "yu", "sa", "eo", ")", " ", "reul", " ", "sa",
              "yong", "hae", " ", "gwan", "ryeon", " ", "sa", "rye", "reul", " ",
              "pyo", "(", "nal", "jja", "/", "beu", "raen", "deu", "/", "je",
              "pum", "/", "sa", "yu", "/", "chul", "cheo", ")", "ro", " ", "jeong",
              "ri", "hae", ".", " ", "gyeol", "gwa", "ga", " ", "bu", "jok", "ha",
              "myeon", " ", "c", "o", "u", "n", "t", "_", "r", "e", "c", "a", "l",
              "l", "s", "ro", " ", "bo", "jo", " ", "jip", "gye", "hae", ".">>
        H_cases ==
            <<"[", "hin", "teu", "]", " ", "ga", "neung", "ha", "myeon", " ", "s",
              "e", "a", "r", "c", "h", "_", "r", "e", "c", "a", "l", "l", "_", "c",
              "a", "s", "e", "s", "reul", " ", "sa", "yong", "hae", " ", "gwan",
              "ryeon", " ", "sa", "rye", "reul", " ", "chaj", "go", ",", " ",
              "pyo", "(", "nal", "jja", "/", "beu", "raen", "deu", "/", "je",
              "pum", "/", "sa", "yu", "/", "chul", "cheo", ")", "ro", " ", "jeong",
              "ri", "hae", ".">>
        H_compare_head ==
            <<"[", "hin", "teu", "]", " ", "ga", "neung", "ha", "myeon", " ", "c",
              "o", "m", "p", "a", "r", "e", "_", "p", "e", "r", "i", "o", "d", "s",
              "(", "\"">>
        H_compare_mid ==
            <<"\"", ",", "\"">>
        H_compare_relative_tail ==
            <<"\"", ",", " ", "i", "n", "c", "l", "u", "d", "e", "_", "r", "e",
              "a", "s", "o", "n", "s", "=", "T", "r", "u", "e", ")", " ", "ham",
              "su", "reul", " ", "sa", "yong", "hae", " ", "byeon", "hwa", "yul",
              "(", "+-", "%", ")", "gwa", " ", "sang", "wi", " ", "won", "in",
              "eul", " ", "ham", "kke", " ", "bi", "gyo", "hae", ".">>
        H_compare_years_tail ==
            <<"\"", ",", " ", "i", "n", "c", "l", "u", "d", "e", "_", "r", "e",
              "a", "s", "o", "n", "s", "=", "T", "r", "u", "e", ")", " ", "ham",
              "su", "reul", " ", "sa", "yong", "hae", " ", "byeon", "hwa", "yul",
              "(", "+-", "%", ")", "eul", " ", "myeong", "si", "hae", ".">>
        H_compare_default_tail ==
            <<"\"", ",", " ", "i", "n", "c", "l", "u", "d", "e", "_", "r", "e",
              "a", "s", "o", "n", "s", "=", "T", "r", "u", "e", ")", " ", "ham",
              "su", "reul", " ", "sa", "yong", "hae", " ", "bi", "gyo", "hae", ".">>
        H_trend_head ==
            <<"[", "hin", "teu", "]", " ", "ga", "neung", "ha", "myeon", " ", "g",
              "e", "t", "_", "m", "o", "n", "t", "h", "l", "y", "_", "t", "r", "e",
              "n", "d", "(", "m", "o", "n", "t", "h", "s", "=">>
        H_trend_tail ==
            <<")", " ", "ham", "su", "reul", " ", "sa", "yong", "hae", " ", "wol",
              "byeol", " ", "chu", "ii", "reul", " ", "pyo", " ", "tto", "neun",
              " ", "mok", "rok", "eu", "ro", " ", "yo", "yak", "hae", ".">>
        H_rank_head ==
            <<"[", "hin", "teu", "]", " ", "ga", "neung", "ha", "myeon", " ", "r",
              "a", "n", "k", "_", "b", "y", "_", "f", "i", "e", "l", "d", "(", "f",
              "i", "e", "l", "d", "=", "\"">>
        H_rank_mid ==
            <<"\"", ",", " ", "l", "i", "m", "i", "t", "=">>
        H_rank_use ==
            <<")", " ", "ham", "su", "reul", " ", "sa", "yong", "hae", " ", "sang",
              "wi", " ">>
        H_rank_tail ==
            <<"gae", "reul", " ", "pyo", "ro", " ", "bo", "yeo", "jwo", ".">>
        H_count ==
            <<"[", "hin", "teu", "]", " ", "ga", "neung", "ha", "myeon", " ", "c",
              "o", "u", "n", "t", "_", "r", "e", "c", "a", "l", "l", "s", " ",
              "ham", "su", "reul", " ", "sa", "yong", "hae", " ", "geon", "su",
              "reul", " ", "jeong", "hwak", "hi", " ", "jip", "gye", "hae", ".",
              " ", "sang", "dae", " ", "gi", "gan", " ", "pyo", "hyeon", "(",
              "jak", "nyeon", "/", "ol", "hae", "/", "jae", "jak", "nyeon", ")",
              "eun", " ", "won", "mun", " ", "geu", "dae", "ro", " ", "in", "ja",
              "ro", " ", "sa", "yong", "hae", ".">>
        H_fallback ==
            <<"[", "hin", "teu", "]", " ", "ga", "neung", "han", " ", "gyeong",
              "uu", " ", "c", "o", "u", "n", "t", "_", "r", "e", "c", "a", "l",
              "l", "s", ",", " ", "r", "a", "n", "k", "_", "b", "y", "_", "f", "i",
              "e", "l", "d", ",", " ", "g", "e", "t", "_", "m", "o", "n", "t", "h",
              "l", "y", "_", "t", "r", "e", "n", "d", ",", " ", "c", "o", "m", "p",
              "a", "r", "e", "_", "p", "e", "r", "i", "o", "d", "s", ",", " ", "s",
              "e", "a", "r", "c", "h", "_", "r", "e", "c", "a", "l", "l", "_", "c",
              "a", "s", "e", "s", ",", " ", "f", "i", "l", "t", "e", "r", "_", "e",
              "x", "c", "l", "u", "d", "e", "_", "c", "o", "n", "d", "i", "t", "i",
              "o", "n", "s", " ", "jung", " ", "1", "~", "2", "gae", " ", "ham",
              "su", "reul", " ", "jeok", "jeol", "hi", " ", "seon", "taek", "hae",
              " ", "geun", "geo", " ", "gi", "ban", "eu", "ro", " ", "dap",
              "byeon", "hae", ".", " ", "sang", "dae", " ", "gi", "gan", " ",
              "pyo", "hyeon", "(", "jak", "nyeon", "/", "ol", "hae", "/", "jae",
              "jak", "nyeon", ")", "eun", " ", "won", "mun", " ", "geu", "dae",
              "ro", " ", "in", "ja", "ro", " ", "jeon", "dal", "hae", ".">>
    IN
    CASE hint.template = "exclude" ->
           H_exclude_head
           \o (IF hint.exclude_terms = <<>> THEN H_exclude_any
               ELSE ListRepr(hint.exclude_terms))
           \o H_exclude_tail
      [] hint.template = "cases_year" ->
           H_cases_year_head \o hint.year_hint \o H_cases_year_tail
      [] hint.template = "cases" -> H_cases
      [] hint.template = "compare_relative" ->
           H_compare_head \o hint.period1 \o H_compare_mid \o hint.period2
           \o H_compare_relative_tail
      [] hint.template = "compare_years" ->
           H_compare_head \o hint.period1 \o H_compare_mid \o hint.period2
           \o H_compare_years_tail
      [] hint.template = "compare_default" ->
           H_compare_head \o hint.period1 \o H_compare_mid \o hint.period2
           \o H_compare_default_tail
      [] hint.template = "trend" ->
           H_trend_head \o Str(hint.months) \o H_trend_tail
      [] hint.template = "rank" ->
           H_rank_head \o FieldText(hint.field) \o H_rank_mid
           \o Str(hint.limit) \o H_rank_use \o Str(hint.limit) \o H_rank_tail
      [] hint.template = "count" -> H_count
      [] OTHER -> H_fallback

\* RecallAgent(add_hint=True): how the application builds its agent
add_hint == TRUE

\* _compose_query(query) in a year
compose_query(query, with_hint, year) ==
    IF ~with_hint THEN query
    ELSE query \o <<"\n", "\n">> \o HintText(make_hint(query, year))

\* What run returns for the response fc_result of process_question
agent_result(fc_result) ==
    [answer |-> fc_result.answer, processing_type |-> "agent",
     function_calls |-> fc_result.function_calls]

\* Questions put to the agent: spellings that differ in letter case or
\* punctuation, with and without words the hint builder looks for
AgentQueries ==
    { <<"t", "o", "p", " ", "3", "0">>, <<"T", "O", "P", " ", "3", "0">>,
      <<"myeoch", " ", "geon">>, <<"myeoch", " ", "geon", "?">>,
      <<"a">>, <<"A">> }

\* The state after run(query) whose call of process_question was given
\* guided_query and returned outcome r
AfterRun(query, guided_query, reply, r) ==
    /\ call' = [op |-> "run", query |-> query,
                guided_query |-> guided_query,
                key |-> r.key, llm_invoked |-> r.llm_invoked,
                reply |-> IF r.llm_invoked THEN reply ELSE NoReply,
                fc_result |-> r.ret, prior |-> stored, n |-> Calls + 1]
    /\ ret' = agent_result(r.ret)
    /\ cache' = r.cache
    /\ stored' = IF r.stored
                 THEN stored \cup {[words |-> WordsOf(query),
                                    key |-> r.key, result |-> r.ret]}
                 ELSE stored
    /\ db_initialized' = r.g.db_initialized
    /\ sqlite_conn' = r.g.sqlite_conn
    /\ vectorstore' = r.g.vectorstore

\* run(query): the query is composed, then handed to process_question
run(query, guided_query, reply, db_up, answer_ok) ==
    AfterRun(query, guided_query, reply,
        process_question(cache,
            [db_initialized |-> db_initialized,
             sqlite_conn |-> sqlite_conn, vectorstore |-> vectorstore],
            recalls, tcache, Calls + 1, guided_query, reply, db_up, TRUE,
            answer_ok))

RunAgent ==
    \E query \in AgentQueries, reply \in DecisionReplies,
       db_up \in IF db_initialized THEN {TRUE} ELSE BOOLEAN,
       answer_ok \in BOOLEAN :
        /\ Calls < MaxCalls
        /\ (\A i \in 1..Len(reply.tool_calls) :
                reply.tool_calls[i].name \notin ToolNames
                    \/ ~reply.tool_calls[i].valid)
              => (db_up /\ answer_ok)
        /\ run(query, compose_query(query, add_hint, current_year), reply,
               db_up, answer_ok)
        /\ UNCHANGED <<env, tcache>>

NextAgent == RunAgent

SpecAgent == InitAsk /\ [][NextAgent]_vars

\* C14: through run, the key of the call is the key of the user's question
\* alone; a question whose own key is that of a question an earlier call
\* stored a response for gets that stored response without the decision
\* service being called; and a call answered from the cache was given no
\* hint.
C14_HintOutsideKey ==
    call.op = "run" =>
        /\ call.key = get_cache_key(call.query)
        /\ \A p \in call.prior :
              p.words = WordsOf(call.query) =>
                  call.fc_result = p.result /\ ~call.llm_invoked
        /\ ~call.llm_invoked => call.guided_query = call.query

\* C30: when the call of process_question inside run ended with processing
\* type "error", run reports processing type "error" and no function calls.
C30_AgentReportsError ==
    (call.op = "run" /\ call.fc_result.processing_type = "error") =>
        ret.processing_type = "error" /\ ret.function_calls = <<>>

\* C28: no response in the answer cache holds the error object of an
\* operation.
C28_FailuresNotCached ==
    \A key \in DOMAIN cache :
        \A i \in 1..Len(cache[key].function_calls) :
            "error" \notin DOMAIN cache[key].function_calls[i].result

(***************************************************************************)
(* The translation cache over many terms                                   *)
(***************************************************************************)
\* Distinct terms are translated one after the other, up to MaxTerms of
\* them; at any point a term translated earlier may be requested again.
MaxTerms == 514

\* The n-th distinct term
TermNo(n) == <<"t">> \o Str(n)

\* What the translation service answers on a cache miss
TranslationReplies == {Failure, <<"e", "n">>}

\* Number of distinct terms requested so far
Fresh == IF call = NoCall THEN 0 ELSE call.fresh

InitTranslate ==
    /\ current_year = FirstYear
    /\ tcache = <<>>
    /\ InitIdle

\* The state after translate_to_english(term), which returned r
AfterTranslate(op, term, fresh, r) ==
    /\ call' = [op |-> op, term |-> term, fresh |-> fresh,
                service_called |-> CachePos(tcache, term) = 0]
    /\ ret' = r.value
    /\ tcache' = r.cache
    /\ UNCHANGED <<env, globals, instance>>

\* translate_to_english on a term not requested before
TranslateNew ==
    \E reply \in TranslationReplies :
        /\ call.op \in {"none", "translate_new"}
        /\ Fresh < MaxTerms
        /\ Fresh > 1 => reply # Failure
        /\ AfterTranslate("translate_new", TermNo(Fresh), Fresh + 1,
               translate_to_english(tcache, (TermNo(Fresh) :> reply),
                                    TermNo(Fresh)))

\* translate_to_english on a term requested before: the first or the latest
TranslateAgain ==
    /\ call.op = "translate_new"
    /\ \E term \in {TermNo(0), TermNo(Fresh - 1)},
          reply \in TranslationReplies :
            AfterTranslate("translate_again", term, Fresh,
                translate_to_english(tcache, (term :> reply), term))

NextTranslate == TranslateNew \/ TranslateAgain

SpecTranslate == InitTranslate /\ [][NextTranslate]_vars

\* C25: a request for a term that was translated before is served without
\* calling the translation service, however many other terms were
\* translated since.
C25_TranslationCacheUnbounded ==
    call.op = "translate_again" => ~call.service_called

\* The value holds a term of the pathogen/detail vocabulary
InDetailVocabulary(value) ==
    /\ Truthy(value)
    /\ \E k \in DETAIL_TERMS : Contains(Lower(value), k)

\* C21: when the recall_reason passed to count_recalls holds a term of the
\* detail vocabulary, the echoed filters never carry both a recall_reason
\* and a recall_reason_detail, whatever else the caller passed.
C21_OneReasonFilter ==
    (call.op = "count_recalls" /\ "count" \in DOMAIN ret
        /\ InDetailVocabulary(call.args.recall_reason)) =>
        Falsy(ret.filters.recall_reason)
            \/ Falsy(ret.filters.recall_reason_detail)

(***************************************************************************)
(* Monthly trend and exclude filter: get_monthly_trend,                    *)
(* filter_exclude_conditions, calculate_filter_statistics                  *)
(***************************************************************************)
\* SQL's LIMIT n over an ordered result: a negative n means no limit
SqlLimit(q, n) == IF n < 0 THEN q ELSE Take(q, n)

\* The order of ISO date texts (and of their YYYY-MM prefixes) is that of
\* their digits read as one number; NULL sorts below every date
DateKey(date) ==
    IF date = Null THEN 0
    ELSE ToInt(SelectSeq(date, LAMBDA c : c \in DigitChars))

\* ORDER BY fda_publish_date DESC (rows of equal date in some order)
RECURSIVE OrderByDateDesc(_)
OrderByDateDesc(rows) ==
    IF rows = {} THEN <<>>
    ELSE LET first == CHOOSE r \in rows :
                         \A o \in rows : DateKey(o.fda_publish_date)
                                            <= DateKey(r.fda_publish_date)
         IN  <<first>> \o OrderByDateDesc(rows \ {first})

\* ORDER BY month DESC over the month texts of the groups
RECURSIVE OrderMonthsDesc(_)
OrderMonthsDesc(months) ==
    IF months = {} THEN <<>>
    ELSE LET first == CHOOSE m \in months :
                         \A o \in months : DateKey(o) <= DateKey(m)
         IN  <<first>> \o OrderMonthsDesc(months \ {first})

\* The search terms of a list of terms, outs being their translations:
\* [term, english] if english != term else [term], for each in turn
ExpandTerms(terms, outs) ==
    Flatten([i \in 1..Len(terms) |-> expand(terms[i], outs[i])])

\* The WHERE clause of get_monthly_trend on the FDA date column; t gives
\* each filter's search terms (<<>> when the filter is not applied)
TrendWhere(row, t) ==
    And3({ IF row.fda_publish_date = Null THEN "F" ELSE "T",
           IF t.keyword = <<>> THEN "T"
              ELSE AnyLike(row, FiveColumns, t.keyword),
           IF t.product_type = <<>> THEN "T"
              ELSE AnyLike(row, {"product_type"}, t.product_type),
           IF t.company = <<>> THEN "T"
              ELSE AnyLike(row, {"company_name"}, t.company),
           IF t.brand = <<>> THEN "T"
              ELSE AnyLike(row, {"brand_name"}, t.brand),
           IF t.recall_reason = <<>> THEN "T"
              ELSE AnyLike(row, {"recall_reason"}, t.recall_reason) })

\* strftime('%Y-%m', date) of an ISO date text
MonthOf(date) == SubSeq(date, 1, 7)

\* SELECT month, COUNT(*) ... GROUP BY month ORDER BY month DESC LIMIT ?
TrendRows(selected, months) ==
    LET ordered == OrderMonthsDesc({MonthOf(r.fda_publish_date) :
                                       r \in selected})
    IN  SqlLimit([i \in 1..Len(ordered) |->
                    [month |-> ordered[i],
                     count |-> Cardinality({r \in selected :
                                  MonthOf(r.fda_publish_date) = ordered[i]})]],
                 months)

\* get_monthly_trend(months, **a) with date_field "fda", connection conn over
\* the table rows, translation cache tc and service svc; exec_ok tells
\* whether cursor.execute succeeds.  Returns the result object and the
\* translation cache afterwards.
get_monthly_trend(conn, rows, tc, svc, exec_ok, months, a) ==
    IF conn = None
    THEN [ret |-> [error |-> "sqlite connection"], tcache |-> tc]
    ELSE
    LET filters == << [arg |-> "keyword", term |-> a.keyword],
                      [arg |-> "product_type", term |-> a.product_type],
                      [arg |-> "company", term |-> a.company],
                      [arg |-> "brand", term |-> a.brand],
                      [arg |-> "recall_reason", term |-> a.recall_reason] >>
        used    == SelectSeq(filters, LAMBDA f : Truthy(f.term))
        trans     == TranslateRun(tc, svc, [i \in 1..Len(used) |-> used[i].term])
        TermsOf(arg) ==
            IF \E i \in 1..Len(used) : used[i].arg = arg
            THEN LET i == CHOOSE j \in 1..Len(used) : used[j].arg = arg
                 IN  expand(used[i].term, trans.out[i])
            ELSE <<>>
        t       == [keyword |-> TermsOf("keyword"),
                    product_type |-> TermsOf("product_type"),
                    company |-> TermsOf("company"),
                    brand |-> TermsOf("brand"),
                    recall_reason |-> TermsOf("recall_reason")]
    IN  IF ~exec_ok
        THEN [ret |-> [error |-> "trend: query failed"], tcache |-> trans.cache]
        ELSE [ret |-> [trend |-> TrendRows({r \in rows :
                                               TrendWhere(r, t) = "T"}, months),
                       months |-> months,
                       filters |-> a],
              tcache |-> trans.cache]

\* The WHERE clause of filter_exclude_conditions; inc and exc are the search
\* terms of the include and the exclude terms (<<>> when there are none)
FilterWhere(row, inc, exc) ==
    And3({ IF inc = <<>> THEN "T" ELSE AnyLike(row, SixColumns, inc),
           IF exc = <<>> THEN "T"
              ELSE Not3(AnyLike(row, SixColumns, exc)) })

\* calculate_filter_statistics over the table: the three COUNT(*) queries,
\* then the arithmetic (a set, see filter_statistics)
calculate_filter_statistics(rows, inc, exc) ==
    filter_statistics(
        Cardinality(rows),
        IF inc = <<>> THEN Cardinality(rows)
        ELSE Cardinality({r \in rows : AnyLike(r, SixColumns, inc) = "T"}),
        IF exc = <<>> THEN 0
        ELSE Cardinality({r \in rows : AnyLike(r, SixColumns, exc) = "T"}))

NoInfo == <<"jeong", "bo", " ", "eops", "eum">>

\* value or default
OrText(value, default) ==
    IF value = Null \/ value = <<>> THEN default ELSE value

\* One entry of filtered_cases
Case(row) ==
    [company |-> OrText(row.company_name, NoInfo),
     brand |-> OrText(row.brand_name, NoInfo),
     product_type |-> OrText(row.product_type, NoInfo),
     recall_reason |-> OrText(row.recall_reason, NoInfo),
     recall_detail |-> OrText(row.recall_reason_detail, NoInfo),
     fda_date |-> OrText(row.fda_publish_date, NoInfo),
     url |-> OrText(row.url, <<>>)]

\* The result object of filter_exclude_conditions from the main query's rows
filter_result(filtered_results, stats, excludes, includes, limit) ==
    [filtered_cases |-> [i \in 1..Len(filtered_results) |->
                            Case(filtered_results[i])],
     total_found |-> Len(filtered_results),
     statistics |-> stats,
     filters |-> [include_terms |-> includes,
                  exclude_terms |-> excludes, limit |-> limit]]

\* filter_exclude_conditions(exclude_terms=excludes, include_terms=includes,
\* limit); an absent include_terms is the empty list.  The set of possible outcomes, each the
\* result object and the translation cache afterwards.
filter_exclude_conditions(conn, rows, tc, svc, exec_ok, excludes, includes, limit) ==
    IF conn = None
    THEN {[ret |-> [error |-> "sqlite connection"], tcache |-> tc]}
    ELSE
    LET trans == TranslateRun(tc, svc, includes \o excludes)
        inc == ExpandTerms(includes,
                           SubSeq(trans.out, 1, Len(includes)))
        exc == ExpandTerms(excludes,
                           SubSeq(trans.out, Len(includes) + 1,
                                  Len(trans.out)))
    IN  IF ~exec_ok
        THEN {[ret |-> [error |-> "filter: query failed"],
               tcache |-> trans.cache]}
        ELSE {[ret |-> filter_result(
                          SqlLimit(OrderByDateDesc({r \in rows :
                                      FilterWhere(r, inc, exc) = "T"}), limit),
                          stats, excludes, includes, limit),
               tcache |-> TranslateRun(trans.cache, svc,
                                       includes \o excludes).cache] :
                 stats \in calculate_filter_statistics(rows, inc, exc)}

\* Inputs of the trend and filter harness.  Limits and month windows the
\* decision service may pass: negative, zero, small, and beyond the table.
MaxWindow == 4

Windows == -1..MaxWindow

NoTrendFilters ==
    [product_type |-> None, company |-> None, brand |-> None,
     recall_reason |-> None, keyword |-> None]

TrendArgs ==
    {NoTrendFilters}
        \cup {[NoTrendFilters EXCEPT ![f] = t] :
                 f \in DOMAIN NoTrendFilters, t \in Terms \cup {<<>>}}

TermLists == {<<>>, <<T_milk>>, <<T_uyu>>, <<T_salmonella>>, <<T_illness>>,
              <<T_salmonella, T_milk>>}

\* The stores are up or down when first asked for; some terms may have been
\* translated before.
InitFilter ==
    /\ current_year = FirstYear
    /\ recalls \in Tables
    /\ db_initialized = FALSE /\ sqlite_conn = None /\ vectorstore = None
    /\ tcache \in InitialCaches
    /\ cache = <<>>
    /\ stored = {}
    /\ call = NoCall
    /\ ret = <<>>

MonthlyTrend ==
    \E months \in Windows, a \in TrendArgs, svc \in {"echo", "dict"},
       exec_ok \in BOOLEAN, db_up \in BOOLEAN :
        LET g == get_system_components(db_initialized, sqlite_conn,
                                       vectorstore, db_up, db_up)
            r == get_monthly_trend(g.sqlite_conn, recalls, tcache, Svc(svc),
                                   exec_ok, months, a)
        IN  /\ call = NoCall
            /\ g.sqlite_conn = None => exec_ok
            /\ call' = [op |-> "get_monthly_trend", months |-> months,
                        args |-> a, svc |-> svc, tcache |-> tcache]
            /\ ret' = r.ret
            /\ tcache' = r.tcache
            /\ db_initialized' = g.db_initialized
            /\ sqlite_conn' = g.sqlite_conn
            /\ vectorstore' = g.vectorstore
            /\ UNCHANGED <<env, instance>>

FilterExcludeConditions ==
    \E excludes \in TermLists, includes \in TermLists, limit \in Windows,
       svc \in {"echo", "dict"}, exec_ok \in BOOLEAN, db_up \in BOOLEAN :
        LET g == get_system_components(db_initialized, sqlite_conn,
                                       vectorstore, db_up, db_up)
        IN  /\ call = NoCall
            /\ g.sqlite_conn = None => exec_ok
            /\ \E r \in filter_exclude_conditions(g.sqlite_conn, recalls,
                            tcache, Svc(svc), exec_ok, excludes, includes,
                            limit) :
                  /\ ret' = r.ret
                  /\ tcache' = r.tcache
            /\ call' = [op |-> "filter_exclude_conditions",
                        exclude_terms |-> excludes,
                        include_terms |-> includes, limit |-> limit,
                        svc |-> svc, tcache |-> tcache]
            /\ db_initialized' = g.db_initialized
            /\ sqlite_conn' = g.sqlite_conn
            /\ vectorstore' = g.vectorstore
            /\ UNCHANGED <<env, instance>>

NextFilter == MonthlyTrend \/ FilterExcludeConditions

SpecFilter == InitFilter /\ [][NextFilter]_vars

\* The filter was run on a connected store with a translation service that
\* returns each term unchanged, so the search terms are the terms given.
PlainFilterCall ==
    /\ call.op = "filter_exclude_conditions"
    /\ "filtered_cases" \in DOMAIN ret
    /\ call.svc = "echo" /\ call.tcache = <<>>

\* The row holds the term in one of the six text columns (any letter case)
HoldsTerm(row, term) ==
    \E c \in SixColumns :
        row[c] # Null /\ Contains(Lower(row[c]), Lower(term))

\* The rows the exclude filter is to select
Wanted(includes, excludes) ==
    {r \in recalls :
        /\ includes # <<>> => \E i \in 1..Len(includes) : HoldsTerm(r, includes[i])
        /\ \A i \in 1..Len(excludes) : ~HoldsTerm(r, excludes[i])}

\* C24: filter_exclude_conditions, when limit does not truncate, returns
\* exactly the rows that hold some include term (any row when none is given)
\* and hold no exclude term in any of the six text columns, rows with a null
\* column included.
C24_ExcludeFilterSelects ==
    (PlainFilterCall /\ call.limit >= Cardinality(recalls)) =>
        Range(ret.filtered_cases)
            = {Case(r) : r \in Wanted(call.include_terms, call.exclude_terms)}

\* C27: when limit does not truncate, the final_filtered statistic of
\* filter_exclude_conditions is the number of rows its main query returned.
C27_FinalFilteredIsRowCount ==
    (call.op = "filter_exclude_conditions" /\ "filtered_cases" \in DOMAIN ret
        /\ call.limit >= Cardinality(recalls)) =>
        ret.statistics.final_filtered = ret.total_found

\* The counts of a trend added up
RECURSIVE SumCounts(_)
SumCounts(trend) ==
    IF trend = <<>> THEN 0 ELSE Head(trend).count + SumCounts(Tail(trend))

\* C23: with recall_reason as the only filter and a window that does not
\* truncate, get_monthly_trend counts the rows whose recall_reason holds the
\* value (any letter case), and these are as many as count_recalls counts for
\* the same recall_reason.
C23_ReasonFilterAgrees ==
    (call.op = "get_monthly_trend" /\ "trend" \in DOMAIN ret
        /\ Truthy(call.args.recall_reason)
        /\ call.args = [NoTrendFilters EXCEPT
                           !.recall_reason = call.args.recall_reason]
        /\ call.svc = "echo" /\ call.tcache = <<>>
        /\ Len(ret.trend) < call.months) =>
        /\ SumCounts(ret.trend)
              = Cardinality({r \in recalls :
                    /\ r.recall_reason # Null
                    /\ Contains(Lower(r.recall_reason),
                                Lower(call.args.recall_reason))})
        /\ SumCounts(ret.trend)
              = count_recalls(Conn, recalls, call.tcache, Svc(call.svc), TRUE,
                    [NoFilters EXCEPT
                        !.recall_reason = call.args.recall_reason]).ret.count

\* C22: a limit (of filter_exclude_conditions) or a month window (of
\* get_monthly_trend) below zero is clamped into the range, so it returns
\* what a limit or window of zero returns.
C22_NumbersClamped ==
    /\ (call.op = "filter_exclude_conditions" /\ "filtered_cases" \in DOMAIN ret
           /\ call.limit < 0) =>
          \E r \in filter_exclude_conditions(Conn, recalls, call.tcache,
                       Svc(call.svc), TRUE, call.exclude_terms,
                       call.include_terms, 0) :
              ret.filtered_cases = r.ret.filtered_cases
    /\ (call.op = "get_monthly_trend" /\ "trend" \in DOMAIN ret
           /\ call.months < 0) =>
          ret.trend = get_monthly_trend(Conn, recalls, call.tcache,
                          Svc(call.svc), TRUE, 0, call.args).ret.trend

\* C29: for a four-digit year as period1 and any filters, compare_periods
\* reports for it the total that count_recalls returns for that year and
\* the same company, brand, product_type and keyword.
C29_CompareAgreesWithCount ==
    (call.op = "compare_periods" /\ "period1" \in DOMAIN ret
        /\ FourDigits(call.period1)) =>
        ret.period1.data.total
            = count_recalls(Conn, recalls, call.tcache, Svc(call.svc), TRUE,
                  [NoFilters EXCEPT !.year = call.period1,
                                    !.company = call.filters.company,
                                    !.brand = call.filters.brand,
                                    !.product_type = call.filters.product_type,
                                    !.keyword = call.filters.keyword]).ret.count

(***************************************************************************)
(* Initialisation of the stores over a sequence of operations              *)
(***************************************************************************)
\* What initialize_recall_vectorstore does when called: it returns a handle
\* ("up"), returns None ("down": no folder, or loading failed inside its
\* try), or raises ("raise": os.listdir of the folder fails, outside its try)
StoreReplies == {"up", "down", "raise"}

\* _get_system_components() when initialize_sqlite_db would succeed or not
\* (db_up) and initialize_recall_vectorstore replies vs_reply: the globals
\* afterwards, whether the call raised, and which initialisers ran
system_components(initialized, conn, vs, db_up, vs_reply) ==
    IF ~initialized /\ vs_reply = "raise"
    THEN [g |-> [db_initialized |-> FALSE,
                 sqlite_conn |-> IF db_up THEN Conn ELSE None,
                 vectorstore |-> vs],
          raised |-> TRUE, ran |-> TRUE]
    ELSE [g |-> get_system_components(initialized, conn, vs, db_up,
                                      vs_reply = "up"),
          raised |-> FALSE, ran |-> ~initialized]

\* The operations that start with _get_system_components()
StoreUsers == {"count_recalls", "rank_by_field", "get_monthly_trend",
               "compare_periods", "search_recall_cases",
               "filter_exclude_conditions", "get_sqlite_conn"}

\* Operations are called one after the other, up to MaxOps of them
MaxOps == 4

\* How often the initialisers have run so far
Inits == IF call = NoCall THEN 0 ELSE call.inits

InitSystem ==
    /\ current_year = FirstYear
    /\ InitIdle

\* The first step of an operation: it asks for the handles
UseStore ==
    \E op \in StoreUsers, db_up \in BOOLEAN, vs_reply \in StoreReplies :
        LET r == system_components(db_initialized, sqlite_conn, vectorstore,
                                   db_up, vs_reply)
        IN  /\ Calls < MaxOps
            /\ db_initialized => (db_up /\ vs_reply = "up")
            /\ call' = [op |-> op, n |-> Calls + 1,
                        inits |-> Inits + (IF r.ran THEN 1 ELSE 0),
                        raised |-> r.raised,
                        before |-> [sqlite_conn |-> sqlite_conn,
                                    vectorstore |-> vectorstore,
                                    db_initialized |-> db_initialized]]
            /\ ret' = IF r.raised THEN <<>>
                      ELSE <<r.g.sqlite_conn, r.g.vectorstore>>
            /\ db_initialized' = r.g.db_initialized
            /\ sqlite_conn' = r.g.sqlite_conn
            /\ vectorstore' = r.g.vectorstore
            /\ UNCHANGED <<env, tcache, instance>>

NextSystem == UseStore

SpecSystem == InitSystem /\ [][NextSystem]_vars

\* C26: over any sequence of operations initialize_sqlite_db and
\* initialize_recall_vectorstore run at most once, and once they have run
\* every operation gets the handles the globals held before it.
C26_InitialisedOnce ==
    call # NoCall =>
        /\ call.inits <= 1
        /\ call.before.db_initialized =>
              ret = <<call.before.sqlite_conn, call.before.vectorstore>>

====
